---- MODULE Spec2Model ----
(***************************************************************************)
(* Conference management system: account creation and OAuth account        *)
(* linking (backend auth routes), the scheduled review reminder and weekly *)
(* digest jobs (backend scheduled tasks), review aggregation, the review   *)
(* lifecycle, the email service and the file URL helper.                   *)
(*                                                                         *)
(* The user collection is a sequence of documents; a document's _id is its *)
(* position in the sequence (insertion order, which is also the order in   *)
(* which find/findOne return documents).                                   *)
(***************************************************************************)
EXTENDS Integers, Sequences, FiniteSets, TLC

VARIABLES
    users,        \* the User collection
    last,         \* the request most recently answered, with its response
    inflight,     \* requests between their awaits (interleaved execution)
    conferences,  \* the Conference collection
    submissions,  \* the Submission collection
    reviews,      \* the Review collection
    day,          \* number of daily scheduler ticks elapsed
    runs,         \* log of the review reminder runs (windows and selections)
    outbox,       \* sendEmail calls of the most recent job run, in order
    rejected,     \* positions of outbox whose delivery failed (rejected promise)
    errors,       \* console.error lines of the most recent job run
    digestRuns,   \* log of the weekly digest runs
    returned,     \* the most recent call of a helper function, with what it returned
    procs,        \* the calls of the scheduled jobs, each with its position, its
                  \* sendEmail promises and its console lines
    toasts,       \* ToastProvider: the toast list
    timers,       \* the setTimeout callbacks of the toasts that have not run yet
    clock,        \* Date.now() in the browser
    shown,        \* every toast shown so far, in order
    dismissed,    \* the timers that have run
    fetches,      \* MySubmissions: the detail requests, in the order they were made
    selectedSubmission,
    showDetailsModal,
    detailsLoading

procVars == <<procs>>

toastVars == <<toasts, timers, clock, shown, dismissed>>

detailVars == <<fetches, selectedSubmission, showDetailsModal, detailsLoading>>

pageVars == <<toastVars, detailVars>>

vars == <<users, last, inflight, conferences, submissions, reviews, day, runs, outbox,
          rejected, errors, digestRuns, returned, procVars, pageVars>>

authVars == <<users, last, inflight>>

jobVars == <<conferences, submissions, reviews, day, runs, outbox, rejected, errors, digestRuns>>

(***************************************************************************)
(* Values                                                                  *)
(***************************************************************************)

\* an absent field, a missing request parameter, a lookup that found nothing
None == "none"

Roles == {"organizer", "author", "reviewer", "participant"}

\* const allowedRoles = ['author', 'reviewer', 'participant']
allowedRoles == {"author", "reviewer", "participant"}

\* An e-mail address: its local part as a sequence of characters, and its domain.
Mail(local, domain) == [local |-> local, domain |-> domain]

\* ORCID iDs as the provider returns them: characters with dashes between groups.
Orcids == {<<"7", "-", "1">>}

\* `${orcid.replace(/-/g, '')}@orcid.user`
IsNotDash(c) == c # "-"

OrcidEmail(orcid) == Mail(SelectSeq(orcid, IsNotDash), "orcid.user")

\* no ORCID iD (the field is absent)
NoOrcid == <<>>

\* no e-mail address (the field is absent)
NoMail == Mail(<<>>, "")

\* Addresses a client can register with or a Google profile can carry; one of
\* them is the address the ORCID callback derives for the ORCID iD.
Emails == {Mail(<<"x">>, "a.org"), Mail(<<"7", "1">>, "orcid.user")}

GoogleIds == {"g1", "g2"}

AccessTokens == {"at1"}

\* refresh_token is only present in some token responses
RefreshTokens == {None, "rt1"}

\* most accounts the model lets the collection hold
MaxUsers == 3

(***************************************************************************)
(* The User collection                                                     *)
(***************************************************************************)

\* new User({...}): fields that were not given are absent
NewUser(email, role, googleId, orcid, gat, grt, oat) ==
    [email |-> email, role |-> role, googleId |-> googleId, orcid |-> orcid,
     googleAccessToken |-> gat, googleRefreshToken |-> grt, orcidAccessToken |-> oat]

Ids(db) == 1..Len(db)

\* User.find({ email }): the ids of the matching documents, in collection order
FindByEmail(db, email) ==
    SelectSeq([i \in 1..Len(db) |-> i], LAMBDA i : db[i].email = email)

\* User.findOne({ googleId }): the first matching document's id, 0 when none
FindOneByGoogleId(db, googleId) ==
    IF \E i \in Ids(db) : db[i].googleId = googleId
    THEN CHOOSE i \in Ids(db) : /\ db[i].googleId = googleId
                                /\ \A j \in Ids(db) : db[j].googleId = googleId => i <= j
    ELSE 0

\* User.findOne({ orcid })
FindOneByOrcid(db, orcid) ==
    IF \E i \in Ids(db) : db[i].orcid = orcid
    THEN CHOOSE i \in Ids(db) : /\ db[i].orcid = orcid
                                /\ \A j \in Ids(db) : db[j].orcid = orcid => i <= j
    ELSE 0

\* A document as a handler holds it after a find: its _id and its fields as read.
Found(db, i) == IF i = 0 THEN [id |-> 0] ELSE [id |-> i, doc |-> db[i]]

FoundAll(db, ids) == [k \in 1..Len(ids) |-> Found(db, ids[k])]

\* existingUsers.some(u => u.role === 'organizer')
hasOrganizerAccount(existingUsers) ==
    \E k \in 1..Len(existingUsers) : existingUsers[k].doc.role = "organizer"

(***************************************************************************)
(* What a handler decides once its lookups have returned: a rejection, an  *)
(* update of the document it holds (the fields it assigned), or an insert. *)
(***************************************************************************)

Reject(status, reason) == [kind |-> "reject", status |-> status, reason |-> reason]

\* found is the document as the handler read it; set the fields it assigned
Update(found, via, set) ==
    [kind |-> "update", status |-> 200, id |-> found.id, doc |-> found.doc,
     via |-> via, set |-> set]

Insert(status, doc) == [kind |-> "insert", status |-> status, doc |-> doc]

\* user.googleAccessToken = access_token; if (refresh_token) user.googleRefreshToken = ...
GoogleTokenFields(req) ==
    IF req.refresh_token # None
    THEN [googleAccessToken |-> req.access_token, googleRefreshToken |-> req.refresh_token]
    ELSE [googleAccessToken |-> req.access_token]

\* the fields of f and g together (g's value where both assign)
Merge(f, g) ==
    [x \in DOMAIN f \cup DOMAIN g |-> IF x \in DOMAIN g THEN g[x] ELSE f[x]]

\* requestedRole with the role the request asked for dropped
requestedRole_Ignored(req) == "author"

\* const requestedRole = role || 'author'
requestedRole(req) == IF req.role = None THEN "author" ELSE req.role

\* no field assigned
NoFields == [x \in {} |-> None]

(***************************************************************************)
(* Requests.  pre is how far a request gets before it touches the          *)
(* collection: "ok", or the check that answers 400 first.                  *)
(***************************************************************************)

Request(pre, email, role, googleId, orcid, at, rt) ==
    [pre |-> pre, email |-> email, role |-> role, googleId |-> googleId,
     orcid |-> orcid, access_token |-> at, refresh_token |-> rt]

\* a request answered 400 before any lookup carries nothing the handler reads
Refused(pres) == {Request(pre, NoMail, None, None, NoOrcid, None, None) : pre \in pres}

\* body: email, role (one of the four roles, required)
RegisterRequests ==
    {Request("ok", e, r, None, NoOrcid, None, None) : e \in Emails, r \in Roles}
        \cup Refused({"validation"})

\* body: role (optional); from Google: id, email, access_token, refresh_token
GoogleRequests ==
    {Request("ok", pr[1], r, pr[2], NoOrcid, pr[3], pr[4]) :
        pr \in Emails \X GoogleIds \X AccessTokens \X RefreshTokens, r \in Roles \cup {None}}
        \cup Refused({"validation", "invalid_grant", "exchange_failed",
                      "no_access_token", "no_google_id"})

\* body: role (optional); from ORCID: orcid, access_token
OrcidRequests ==
    {Request("ok", NoMail, r, None, pr[1], pr[2], None) :
        pr \in Orcids \X AccessTokens, r \in Roles \cup {None}}
        \cup Refused({"validation", "invalid_grant", "exchange_failed", "no_orcid"})

(***************************************************************************)
(* POST /register                                                          *)
(***************************************************************************)

\* RegisterDecide letting an address with no organizer account take one more
\* role
RegisterDecide_OtherRoleAllowed(req, existingUsers) ==
    IF req.pre # "ok" THEN Reject(400, req.pre)
    ELSE IF Len(existingUsers) > 0 THEN
        IF hasOrganizerAccount(existingUsers) THEN Reject(400, "email_is_organizer")
        ELSE IF req.role = "organizer" THEN Reject(400, "email_has_other_roles")
        ELSE IF \E k \in 1..Len(existingUsers) : existingUsers[k].doc.role = req.role
             THEN Reject(400, "same_role_exists")
        ELSE Insert(201, NewUser(req.email, req.role, None, NoOrcid, None, None, None))
    ELSE Insert(201, NewUser(req.email, req.role, None, NoOrcid, None, None, None))

\* any account with the e-mail address refuses the registration, with a
\* message that depends on the roles found
RegisterDecide(req, existingUsers) ==
    IF req.pre # "ok" THEN Reject(400, req.pre)
    ELSE IF Len(existingUsers) > 0 THEN
        IF hasOrganizerAccount(existingUsers) THEN Reject(400, "email_is_organizer")
        ELSE IF req.role = "organizer" THEN Reject(400, "email_has_other_roles")
        ELSE IF \E k \in 1..Len(existingUsers) : existingUsers[k].doc.role = req.role
             THEN Reject(400, "same_role_exists")
        ELSE Reject(400, "email_registered")
    ELSE Insert(201, NewUser(req.email, req.role, None, NoOrcid, None, None, None))

(***************************************************************************)
(* POST /google/callback                                                   *)
(***************************************************************************)

\* GoogleKnownId without the organizer check on a role change
GoogleKnownId_AnyRoleSwitch(req, user) ==
    IF req.role # None /\ user.doc.role # requestedRole(req)
    THEN Update(user, "id", Merge([role |-> requestedRole(req)], GoogleTokenFields(req)))
    ELSE Update(user, "id", GoogleTokenFields(req))

\* the branch that found the account by its Google id
GoogleKnownId(req, user) ==
    IF req.role # None /\ user.doc.role # requestedRole(req) THEN
        IF user.doc.role = "organizer" \/ requestedRole(req) = "organizer"
        THEN Reject(403, "organizer_exclusive")
        ELSE Update(user, "id", Merge([role |-> requestedRole(req)], GoogleTokenFields(req)))
    ELSE Update(user, "id", GoogleTokenFields(req))

\* GoogleByEmail without the check for an organizer account under the e-mail
GoogleByEmail_LinksOrganizer(req, existingUsers) ==
    IF Len(existingUsers) > 0 THEN
        IF requestedRole(req) = "organizer" THEN Reject(403, "email_has_other_roles")
        ELSE Update(existingUsers[1], "email",
                    Merge(Merge([googleId |-> req.googleId], GoogleTokenFields(req)),
                          IF req.role # None /\ requestedRole(req) \in allowedRoles
                          THEN [role |-> requestedRole(req)] ELSE NoFields))
    ELSE Insert(200, NewUser(req.email, requestedRole(req), req.googleId, NoOrcid,
                             req.access_token, req.refresh_token, None))

\* the branch that found no account by Google id and looked the e-mail up
GoogleByEmail(req, existingUsers) ==
    IF Len(existingUsers) > 0 THEN
        IF hasOrganizerAccount(existingUsers) THEN Reject(403, "email_is_organizer")
        ELSE IF requestedRole(req) = "organizer" THEN Reject(403, "email_has_other_roles")
        ELSE Update(existingUsers[1], "email",
                    Merge(Merge([googleId |-> req.googleId], GoogleTokenFields(req)),
                          IF req.role # None /\ requestedRole(req) \in allowedRoles
                          THEN [role |-> requestedRole(req)] ELSE NoFields))
    ELSE Insert(200, NewUser(req.email, requestedRole(req), req.googleId, NoOrcid,
                             req.access_token, req.refresh_token, None))

GoogleDecide(req, user, existingUsers) ==
    IF req.pre # "ok" THEN Reject(400, req.pre)
    ELSE IF user.id # 0 THEN GoogleKnownId(req, user)
    ELSE GoogleByEmail(req, existingUsers)

(***************************************************************************)
(* POST /orcid/callback                                                    *)
(***************************************************************************)

\* OrcidKnownId with the assignment user.role = requestedRole left out
OrcidKnownId_KeepsRole(req, user) ==
    IF req.role # None /\ user.doc.role # requestedRole(req) THEN
        IF user.doc.role = "organizer" \/ requestedRole(req) = "organizer"
        THEN Reject(403, "organizer_exclusive")
        ELSE Update(user, "id", [orcidAccessToken |-> req.access_token])
    ELSE Update(user, "id", [orcidAccessToken |-> req.access_token])

\* the branch that found the account by its ORCID iD
OrcidKnownId(req, user) ==
    IF req.role # None /\ user.doc.role # requestedRole(req) THEN
        IF user.doc.role = "organizer" \/ requestedRole(req) = "organizer"
        THEN Reject(403, "organizer_exclusive")
        ELSE Update(user, "id", [role |-> requestedRole(req),
                                    orcidAccessToken |-> req.access_token])
    ELSE Update(user, "id", [orcidAccessToken |-> req.access_token])

\* OrcidByEmail without the rejection of a request for organizer
OrcidByEmail_OrganizerLinks(req, existingUsers) ==
    IF Len(existingUsers) > 0 THEN
        IF hasOrganizerAccount(existingUsers) THEN Reject(403, "email_is_organizer")
        ELSE Update(existingUsers[1], "email",
                    Merge([orcid |-> req.orcid, orcidAccessToken |-> req.access_token],
                          IF req.role # None /\ requestedRole(req) \in allowedRoles
                          THEN [role |-> requestedRole(req)] ELSE NoFields))
    ELSE Insert(200, NewUser(OrcidEmail(req.orcid), requestedRole(req), None, req.orcid,
                             None, None, req.access_token))

\* the branch that found no account by ORCID iD and looked the derived e-mail up
OrcidByEmail(req, existingUsers) ==
    IF Len(existingUsers) > 0 THEN
        IF hasOrganizerAccount(existingUsers) THEN Reject(403, "email_is_organizer")
        ELSE IF requestedRole(req) = "organizer" THEN Reject(403, "email_has_other_roles")
        ELSE Update(existingUsers[1], "email",
                    Merge([orcid |-> req.orcid, orcidAccessToken |-> req.access_token],
                          IF req.role # None /\ requestedRole(req) \in allowedRoles
                          THEN [role |-> requestedRole(req)] ELSE NoFields))
    ELSE Insert(200, NewUser(OrcidEmail(req.orcid), requestedRole(req), None, req.orcid,
                             None, None, req.access_token))

OrcidDecide(req, user, existingUsers) ==
    IF req.pre # "ok" THEN Reject(400, req.pre)
    ELSE IF user.id # 0 THEN OrcidKnownId(req, user)
    ELSE OrcidByEmail(req, existingUsers)

(***************************************************************************)
(* Saving and answering                                                    *)
(***************************************************************************)

\* The collection's part of save(), as a plain document store: a new document is
\* appended whatever the collection holds (no uniqueness constraint is described
\* for the store), an existing one has the assigned fields written.
StoreInsert(db, doc) == Append(db, doc)

StoreUpdate(db, id, set) == [db EXCEPT ![id] = Merge(@, set)]

\* await user.save(): an insert for a new document, otherwise an update of the
\* assigned fields of the document with that _id
Save(db, d) ==
    CASE d.kind = "reject" -> db
      [] d.kind = "update" -> StoreUpdate(db, d.id, d.set)
      [] d.kind = "insert" -> StoreInsert(db, d.doc)

\* the user document the handler holds when it answers
Held(d) ==
    CASE d.kind = "update" -> Merge(d.doc, d.set)
      [] d.kind = "insert" -> d.doc

\* The response: its status; for a success the account the token is issued for
\* (generateToken({ userId: user._id, role: user.role })), how the account was
\* found, and isNewUser (!user.googleAccessToken / !user.orcidAccessToken).
\* It is logged with what the request asked: role, identity, and the e-mail
\* address the handler looked up.
Response(op, req, email, d, db) ==
    [op |-> op, pre |-> req.pre, role |-> req.role, email |-> email,
     googleId |-> req.googleId, orcid |-> req.orcid,
     status |-> d.status,
     reason |-> IF d.kind = "reject" THEN d.reason ELSE None,
     userId |-> CASE d.kind = "reject" -> 0
                  [] d.kind = "update" -> d.id
                  [] d.kind = "insert" -> Len(db) + 1,
     tokenRole |-> IF d.kind = "reject" THEN None ELSE Held(d).role,
     via |-> CASE d.kind = "reject" -> None
               [] d.kind = "update" -> d.via
               [] d.kind = "insert" -> "new",
     isNewUser |-> CASE d.kind = "reject" -> FALSE
                     [] op = "google" -> Held(d).googleAccessToken = None
                     [] op = "orcid" -> Held(d).orcidAccessToken = None
                     [] OTHER -> FALSE]

NoRequest == [op |-> None]

(***************************************************************************)
(* The handlers as single steps: requests that do not overlap              *)
(***************************************************************************)

Register ==
    \E req \in RegisterRequests :
        LET d == RegisterDecide(req, FoundAll(users, FindByEmail(users, req.email)))
        IN /\ d.kind = "insert" => Len(users) < MaxUsers
           /\ users' = Save(users, d)
           /\ last' = Response("register", req, req.email, d, users)
           /\ UNCHANGED <<inflight, jobVars, returned, procVars, pageVars>>

GoogleCallback ==
    \E req \in GoogleRequests :
        LET d == GoogleDecide(req, Found(users, FindOneByGoogleId(users, req.googleId)),
                              FoundAll(users, FindByEmail(users, req.email)))
        IN /\ d.kind = "insert" => Len(users) < MaxUsers
           /\ users' = Save(users, d)
           /\ last' = Response("google", req, req.email, d, users)
           /\ UNCHANGED <<inflight, jobVars, returned, procVars, pageVars>>

OrcidCallback ==
    \E req \in OrcidRequests :
        LET d == OrcidDecide(req, Found(users, FindOneByOrcid(users, req.orcid)),
                             FoundAll(users, FindByEmail(users, OrcidEmail(req.orcid))))
        IN /\ d.kind = "insert" => Len(users) < MaxUsers
           /\ users' = Save(users, d)
           /\ last' = Response("orcid", req, OrcidEmail(req.orcid), d, users)
           /\ UNCHANGED <<inflight, jobVars, returned, procVars, pageVars>>

(***************************************************************************)
(* POST /login                                                             *)
(***************************************************************************)

\* User.findOne({ email }): the first matching document's id, 0 when none
FindOneByEmail(db, email) ==
    IF FindByEmail(db, email) = <<>> THEN 0 ELSE FindByEmail(db, email)[1]

\* body: email, password; passwordValid is what user.comparePassword(password)
\* answers for the stored hash
LoginRequests ==
    {Merge(Request("ok", e, None, None, NoOrcid, None, None), [passwordValid |-> v]) :
        e \in Emails, v \in BOOLEAN}
        \cup {Merge(r, [passwordValid |-> FALSE]) : r \in Refused({"validation"})}

\* LoginDecide answering an unknown e-mail address with 404
LoginDecide_UnknownIsNotFound(req, user) ==
    IF req.pre # "ok" THEN Reject(400, req.pre)
    ELSE IF user.id = 0 THEN Reject(404, "User not found")
    ELSE IF ~req.passwordValid THEN Reject(401, "Invalid credentials")
    ELSE Update(user, "password", NoFields)

\* if (!user) 401; if (!isPasswordValid) 401; otherwise the token of the user
\* found, which is not written
LoginDecide(req, user) ==
    IF req.pre # "ok" THEN Reject(400, req.pre)
    ELSE IF user.id = 0 THEN Reject(401, "Invalid credentials")
    ELSE IF ~req.passwordValid THEN Reject(401, "Invalid credentials")
    ELSE Update(user, "password", NoFields)

Login ==
    \E req \in LoginRequests :
        LET d == LoginDecide(req, Found(users, FindOneByEmail(users, req.email)))
        IN /\ last' = Merge(Response("login", req, req.email, d, users),
                            [passwordValid |-> req.passwordValid])
           /\ UNCHANGED <<users, inflight, jobVars, returned, procVars, pageVars>>

\* no helper function has been called
NoCall == [fn |-> None]

\* useState(null) of selectedSubmission
NoSubmission == 0

\* no job has been called, and the pages are as they are first rendered
Idle ==
    /\ procs = <<>>
    /\ toasts = <<>>
    /\ timers = {}
    /\ clock = 0
    /\ shown = <<>>
    /\ dismissed = {}
    /\ fetches = <<>>
    /\ selectedSubmission = NoSubmission
    /\ showDetailsModal = FALSE
    /\ detailsLoading = FALSE

NoJobs ==
    /\ conferences = <<>>
    /\ submissions = <<>>
    /\ reviews = {}
    /\ day = 0
    /\ runs = <<>>
    /\ outbox = <<>>
    /\ rejected = {}
    /\ errors = {}
    /\ digestRuns = <<>>
    /\ returned = NoCall

\* an empty user collection, nothing answered yet
InitAuth ==
    /\ users = <<>>
    /\ last = NoRequest
    /\ inflight = <<>>
    /\ NoJobs
    /\ Idle

NextAuth == Register \/ GoogleCallback \/ OrcidCallback \/ Login

SpecAuth == InitAuth /\ [][NextAuth]_vars

(***************************************************************************)
(* OAuth account linking: what the claims speak of                         *)
(***************************************************************************)

OAuthOps == {"google", "orcid"}

\* last is the answer to an OAuth callback that reached its lookups
OAuthAnswered(l) == l.op \in OAuthOps /\ l.pre = "ok"

\* the account linked to the identity the callback l presented, 0 when none
LinkedAccount(db, l) ==
    IF l.op = "google" THEN FindOneByGoogleId(db, l.googleId)
    ELSE FindOneByOrcid(db, l.orcid)

\* the accounts stored under the e-mail address the callback l presented
EmailAccounts(db, l) == {i \in Ids(db) : db[i].email = l.email}

\* the existing account for the presented identity/e-mail: the one linked to
\* the external id, otherwise the first one under the e-mail; 0 when none
ExistingAccount(db, l) ==
    IF LinkedAccount(db, l) # 0 THEN LinkedAccount(db, l)
    ELSE IF EmailAccounts(db, l) # {}
         THEN CHOOSE i \in EmailAccounts(db, l) : \A j \in EmailAccounts(db, l) : i <= j
         ELSE 0

OrganizerFor(db, email) ==
    \E i \in Ids(db) : db[i].email = email /\ db[i].role = "organizer"

\* C1 as stated: an organizer account exists for e-mail X; every OAuth login
\* of an identity with e-mail X that asks for a non-organizer role is answered
\* 403 and leaves the collection as it was.
C1_Original ==
    [][(/\ OAuthAnswered(last')
        /\ last'.role \in allowedRoles
        /\ OrganizerFor(users, last'.email))
       => (last'.status = 403 /\ users' = users)]_vars

\* C1 (amended): an organizer account exists for e-mail X; an OAuth login of an
\* identity with e-mail X that asks for a non-organizer role is answered 403
\* and leaves the collection as it was, unless the identity's external id is
\* already linked to a non-organizer account.
C1_OrganizerEmailRejectsOtherRole ==
    [][(/\ OAuthAnswered(last')
        /\ last'.role \in allowedRoles
        /\ OrganizerFor(users, last'.email)
        /\ LinkedAccount(users, last') # 0
              => users[LinkedAccount(users, last')].role = "organizer")
       => (last'.status = 403 /\ users' = users)]_vars

\* C1 witness: a Google login asking for reviewer was refused because its
\* e-mail belongs to an organizer account.
C1_Witness ==
    /\ OAuthAnswered(last)
    /\ last.op = "google"
    /\ last.role = "reviewer"
    /\ last.status = 403
    /\ last.reason = "email_is_organizer"
    /\ OrganizerFor(users, last.email)

\* C2: over every sequence of register / Google / ORCID requests, no account
\* moves between organizer and a non-organizer role (and none disappears), and
\* no e-mail has both an organizer account and a non-organizer account.
C2_OrganizerExclusivity ==
    [][/\ \A i \in Ids(users) :
             /\ i \in Ids(users')
             /\ (users[i].role = "organizer") <=> (users'[i].role = "organizer")
       /\ \A i, j \in Ids(users') :
             (users'[i].email = users'[j].email /\ users'[i].role = "organizer")
                => users'[j].role = "organizer"]_vars

\* C2 witness: an organizer account and a non-organizer account exist, and the
\* last request switched the role of an existing account.
C2_Witness ==
    /\ \E i, j \in Ids(users) : users[i].role = "organizer" /\ users[j].role # "organizer"
    /\ OAuthAnswered(last)
    /\ last.status = 200
    /\ last.via \in {"id", "email"}
    /\ last.role \in allowedRoles

\* C3 as stated: the existing account for the presented identity/e-mail is an
\* organizer and the login asks for organizer; the callback succeeds with that
\* account and creates none, however the account was found.
C3_Original ==
    [][(/\ OAuthAnswered(last')
        /\ last'.role = "organizer"
        /\ ExistingAccount(users, last') # 0
        /\ users[ExistingAccount(users, last')].role = "organizer")
       => (/\ last'.status = 200
           /\ last'.userId = ExistingAccount(users, last')
           /\ Len(users') = Len(users))]_vars

\* C4: the existing account for the presented identity/e-mail is a
\* non-organizer and the login asks for organizer; the callback is answered 403
\* and the collection (roles, linked ids, tokens) is left as it was.
C4_NonOrganizerCannotBecomeOrganizer ==
    [][(/\ OAuthAnswered(last')
        /\ last'.role = "organizer"
        /\ ExistingAccount(users, last') # 0
        /\ users[ExistingAccount(users, last')].role # "organizer")
       => (last'.status = 403 /\ users' = users)]_vars

\* C4 witness: an ORCID login asking for organizer was refused and the account
\* under its e-mail is a non-organizer, not linked to the ORCID iD.
C4_Witness ==
    /\ OAuthAnswered(last)
    /\ last.op = "orcid"
    /\ last.role = "organizer"
    /\ last.status = 403
    /\ LinkedAccount(users, last) = 0
    /\ ExistingAccount(users, last) # 0
    /\ users[ExistingAccount(users, last)].role \in allowedRoles

\* C5: the existing account is a non-organizer and the login names another
\* non-organizer role; the callback succeeds, that account gets the requested
\* role, the token is issued for it, and no account is added.
C5_RoleSwitch ==
    [][(/\ OAuthAnswered(last')
        /\ last'.role \in allowedRoles
        /\ ExistingAccount(users, last') # 0
        /\ users[ExistingAccount(users, last')].role \in allowedRoles \ {last'.role})
       => (/\ last'.status = 200
           /\ last'.userId = ExistingAccount(users, last')
           /\ last'.tokenRole = last'.role
           /\ Len(users') = Len(users)
           /\ users'[last'.userId].role = last'.role)]_vars

\* C5 witness: a login found its account by the external id and the account now
\* has the requested role, while another account exists too.
C5_Witness ==
    /\ OAuthAnswered(last)
    /\ last.status = 200
    /\ last.via = "id"
    /\ last.role = "participant"
    /\ Len(users) = 2
    /\ users[last.userId].role = "participant"

\* C6: no account has the external id and none has its e-mail; the callback
\* adds exactly one account, with the requested role (author when none was
\* given), and changes no other.
C6_NewAccount ==
    [][(/\ OAuthAnswered(last')
        /\ LinkedAccount(users, last') = 0
        /\ EmailAccounts(users, last') = {})
       => (/\ last'.status = 200
           /\ Len(users') = Len(users) + 1
           /\ SubSeq(users', 1, Len(users)) = users
           /\ last'.userId = Len(users')
           /\ users'[Len(users')].email = last'.email
           /\ users'[Len(users')].role
                 = IF last'.role = None THEN "author" ELSE last'.role)]_vars

\* C6 witness: the last request created an organizer account through ORCID.
C6_Witness ==
    /\ OAuthAnswered(last)
    /\ last.op = "orcid"
    /\ last.via = "new"
    /\ last.role = "organizer"
    /\ users[Len(users)].role = "organizer"
    /\ users[Len(users)].orcid = last.orcid

(***************************************************************************)
(* The handlers as they run on the event loop: a handler yields at every   *)
(* await (find, findOne, save), and other requests run in between.         *)
(* inflight holds the requests of the run, each with the point it has      *)
(* reached: "find" (waiting for User.find by e-mail), "save" (waiting for  *)
(* user.save()), "done" (answered).                                        *)
(***************************************************************************)

\* most requests of one run
MaxRequests == 2

NoDecision == [kind |-> "none"]

Pending(op, req, email, pc, d) == [op |-> op, req |-> req, email |-> email, pc |-> pc, d |-> d]

\* the request either is answered now (a rejection) or goes on to its next await
Proceed(op, req, email, d) ==
    IF d.kind = "reject"
    THEN /\ inflight' = Append(inflight, Pending(op, req, email, "done", NoDecision))
         /\ last' = Response(op, req, email, d, users)
    ELSE /\ inflight' = Append(inflight, Pending(op, req, email, "save", d))
         /\ UNCHANGED last

\* /register up to the return of User.find({ email })
ConcRegister ==
    \E req \in RegisterRequests :
        /\ Len(inflight) < MaxRequests
        /\ Proceed("register", req, req.email,
                   RegisterDecide(req, FoundAll(users, FindByEmail(users, req.email))))
        /\ UNCHANGED <<users, jobVars, returned, procVars, pageVars>>

\* /google/callback up to the return of User.findOne({ googleId })
ConcGoogle ==
    \E req \in GoogleRequests :
        LET user == Found(users, FindOneByGoogleId(users, req.googleId))
        IN /\ Len(inflight) < MaxRequests
           /\ IF req.pre = "ok" /\ user.id = 0
              THEN /\ inflight' = Append(inflight,
                                         Pending("google", req, req.email, "find", NoDecision))
                   /\ UNCHANGED last
              ELSE Proceed("google", req, req.email, GoogleDecide(req, user, <<>>))
           /\ UNCHANGED <<users, jobVars, returned, procVars, pageVars>>

\* /orcid/callback up to the return of User.findOne({ orcid })
ConcOrcid ==
    \E req \in OrcidRequests :
        LET user == Found(users, FindOneByOrcid(users, req.orcid))
        IN /\ Len(inflight) < MaxRequests
           /\ IF req.pre = "ok" /\ user.id = 0
              THEN /\ inflight' = Append(inflight, Pending("orcid", req, OrcidEmail(req.orcid),
                                                             "find", NoDecision))
                   /\ UNCHANGED last
              ELSE Proceed("orcid", req, OrcidEmail(req.orcid), OrcidDecide(req, user, <<>>))
           /\ UNCHANGED <<users, jobVars, returned, procVars, pageVars>>

\* a callback that found no account by external id: the return of User.find({ email })
ConcFind ==
    \E p \in 1..Len(inflight) :
        LET r == inflight[p]
            existingUsers == FoundAll(users, FindByEmail(users, r.email))
            d == IF r.op = "google" THEN GoogleByEmail(r.req, existingUsers)
                 ELSE OrcidByEmail(r.req, existingUsers)
        IN /\ r.pc = "find"
           /\ IF d.kind = "reject"
              THEN /\ inflight' = [inflight EXCEPT ![p].pc = "done"]
                   /\ last' = Response(r.op, r.req, r.email, d, users)
              ELSE /\ inflight' = [inflight EXCEPT ![p].pc = "save", ![p].d = d]
                   /\ UNCHANGED last
           /\ UNCHANGED <<users, jobVars, returned, procVars, pageVars>>

\* the return of user.save(), and the answer
ConcSave ==
    \E p \in 1..Len(inflight) :
        LET r == inflight[p]
        IN /\ r.pc = "save"
           /\ r.d.kind = "insert" => Len(users) < MaxUsers
           /\ users' = Save(users, r.d)
           /\ last' = Response(r.op, r.req, r.email, r.d, users)
           /\ inflight' = [inflight EXCEPT ![p].pc = "done", ![p].d = NoDecision]
           /\ UNCHANGED <<jobVars, returned, procVars, pageVars>>

NextAuthConc == ConcRegister \/ ConcGoogle \/ ConcOrcid \/ ConcFind \/ ConcSave

SpecAuthConc == InitAuth /\ [][NextAuthConc]_vars

\* C7 as stated: after any interleaving of register, Google-callback and
\* ORCID-callback requests, at most one account exists per e-mail and per
\* external id.
C7_NoDuplicateAccounts ==
    \A i, j \in Ids(users) :
        i # j => /\ users[i].email # users[j].email
                 /\ users[i].googleId = None \/ users[i].googleId # users[j].googleId
                 /\ users[i].orcid = NoOrcid \/ users[i].orcid # users[j].orcid

(***************************************************************************)
(* Scheduled tasks: the review reminder job                                *)
(*                                                                         *)
(* Time is counted in clock ticks (the resolution of new Date()); the      *)
(* scheduler fires the job once a day, DayLen ticks apart.                 *)
(* Conferences and submissions are sequences (a document's _id is its      *)
(* position), reviews a set of documents.                                  *)
(***************************************************************************)

\* clock ticks in a day
DayLen == 2

\* most scheduler days of one run of the model
MaxDays == 3

\* most Review documents
MaxReviews == 2

\* sevenDaysFromNow.setDate(sevenDaysFromNow.getDate() + 7)
ReminderLeadDays == 7

\* eightDaysFromNow.setDate(eightDaysFromNow.getDate() + 8)
ReminderWindowEndDays == 8

\* d.setDate(d.getDate() + n)
AddDays(t, n) == t + n * DayLen

\* the time at which the scheduler fires on the current day
Now == day * DayLen

\* a later new Date() in the same run: the clock has not moved, or has ticked
LaterReads(t) == {t, t + 1}

SubmissionStatuses ==
    {"submitted", "under_review", "review_completed", "accepted", "rejected",
     "camera_ready_pending", "final_submitted"}

ReviewStatuses == {"draft", "submitted", "pending_revision", "in_progress"}

Conference(startDate) == [startDate |-> startDate]

Submission(conferenceId, status, assignedReviewers) ==
    [conferenceId |-> conferenceId, status |-> status,
     assignedReviewers |-> assignedReviewers]

Review(submissionId, reviewerId, status) ==
    [submissionId |-> submissionId, reviewerId |-> reviewerId, status |-> status]

\* the ids of seq's documents that satisfy Test, in collection order
IdsWhere(seq, Test(_)) == SelectSeq([i \in 1..Len(seq) |-> i], Test)

\* Conference.find({ startDate: { $gte: sevenDaysFromNow, $lt: eightDaysFromNow } })
upcomingConferences(sevenDaysFromNow, eightDaysFromNow) ==
    IdsWhere(conferences, LAMBDA c : /\ conferences[c].startDate >= sevenDaysFromNow
                                     /\ conferences[c].startDate < eightDaysFromNow)

\* ReminderSubmissions without the conferenceId condition of the query
ReminderSubmissions_AnyConference(c) ==
    IdsWhere(submissions, LAMBDA s : submissions[s].status \in {"submitted", "under_review"})

\* Submission.find({ conferenceId, status: { $in: ['submitted', 'under_review'] } })
ReminderSubmissions(c) ==
    IdsWhere(submissions, LAMBDA s : /\ submissions[s].conferenceId = c
                                     /\ submissions[s].status \in {"submitted", "under_review"})

\* completedReviewerIds counting only the reviews with status submitted
completedReviewerIds_SubmittedOnly(s) ==
    {r.reviewerId : r \in {x \in reviews : x.submissionId = s /\ x.status = "submitted"}}

\* Review.find({ submissionId, status: { $in: ['submitted', 'pending_revision'] } })
\*   .map(r => r.reviewerId.toString())
completedReviewerIds(s) ==
    {r.reviewerId : r \in {x \in reviews : /\ x.submissionId = s
                                           /\ x.status \in {"submitted", "pending_revision"}}}

\* submission.assignedReviewers.filter(rId => !completedReviewerIds.includes(rId))
pendingReviewers(s) ==
    SelectSeq(submissions[s].assignedReviewers, LAMBDA r : r \notin completedReviewerIds(s))

\* User.findById(reviewerId)
FindById(db, id) == Found(db, IF id \in Ids(db) THEN id ELSE 0)

\* reviewer?.email
HasEmail(found) == found.id # 0 /\ found.doc.email # NoMail

\* sendEmail(reviewer.email, templates.reviewReminder(reviewer, submission, conference, 7))
ReminderEmail(c, s, r) ==
    [to |-> users[r].email, reviewerId |-> r, submissionId |-> s, conferenceId |-> c,
     daysLeft |-> ReminderLeadDays]

RECURSIVE Flatten(_)
\* the sequences of seqs one after the other
Flatten(seqs) == IF seqs = <<>> THEN <<>> ELSE Head(seqs) \o Flatten(Tail(seqs))

\* for (const reviewerId of pendingReviewers) { ... if (reviewer?.email) sendEmail(...) }
SubmissionReminders(c, s) ==
    LET withEmail == SelectSeq(pendingReviewers(s), LAMBDA r : HasEmail(FindById(users, r)))
    IN [k \in 1..Len(withEmail) |-> ReminderEmail(c, s, withEmail[k])]

\* for (const submission of submissions) { if (no assigned reviewers) continue; ... }
ConferenceReminders(c) ==
    LET subs == SelectSeq(ReminderSubmissions(c),
                          LAMBDA s : Len(submissions[s].assignedReviewers) # 0)
    IN Flatten([k \in 1..Len(subs) |-> SubmissionReminders(c, subs[k])])

\* One run of sendReviewReminders whose two clock reads returned t1 and t2: the
\* conferences it selected and the sendEmail calls it made, in order.
ReminderRun(t1, t2) ==
    LET sevenDaysFromNow == AddDays(t1, ReminderLeadDays)
        eightDaysFromNow == AddDays(t2, ReminderWindowEndDays)
        upcoming == upcomingConferences(sevenDaysFromNow, eightDaysFromNow)
    IN [day |-> day, at |-> t1,
        selected |-> {upcoming[k] : k \in 1..Len(upcoming)},
        emails |-> Flatten([k \in 1..Len(upcoming) |-> ConferenceReminders(upcoming[k])])]

\* the sendEmail calls made when the promise of an earlier one must resolve
\* first and a rejection is not caught: none after the first rejected one
Dispatched_AwaitedUncaught(emails, failing) ==
    IF failing \cap (1..Len(emails)) = {}
    THEN emails
    ELSE SubSeq(emails, 1, CHOOSE k \in failing \cap (1..Len(emails)) :
                              \A j \in failing \cap (1..Len(emails)) : k <= j)

\* sendEmail(...).catch(...) is not awaited: the loop goes on to the next
\* recipient whatever becomes of the promise, so every call is made
Dispatched(emails, failing) == emails

\* .catch(err => console.error('Email error:', err)) of the k-th sendEmail call
EmailError(k) == [line |-> "Email error:", at |-> k]

\* the console.error lines of the rejected sendEmail calls
EmailErrors(sent, failing) == {EmailError(k) : k \in failing \cap (1..Len(sent))}

\* sendReviewReminders(), started at Now; failing: the calls whose promise rejects
RunReminders ==
    \E t2 \in LaterReads(Now) :
        LET run == ReminderRun(Now, t2)
        IN \E failing \in SUBSET (1..Len(run.emails)) :
              /\ outbox' = Dispatched(run.emails, failing)
              /\ rejected' = failing \cap (1..Len(outbox'))
              /\ errors' = EmailErrors(outbox', failing)
              /\ runs' = Append(runs, [day |-> run.day, at |-> run.at,
                                       selected |-> run.selected])
              /\ UNCHANGED <<authVars, returned, procVars, pageVars,
                             conferences, submissions, reviews, digestRuns>>

\* the job called once (require('./utils/scheduledTasks').sendReviewReminders())
SendReviewReminders ==
    /\ runs = <<>>
    /\ RunReminders
    /\ UNCHANGED day

\* cron.schedule('0 9 * * *', ...): the job runs on the day's tick
CronReviewReminders ==
    /\ day < MaxDays
    /\ RunReminders
    /\ day' = day + 1

\* a day on which the process is not up at 9 AM
CronMissed ==
    /\ day < MaxDays
    /\ day' = day + 1
    /\ UNCHANGED <<authVars, returned, procVars, pageVars,
                             conferences, submissions, reviews, runs, outbox, rejected, errors,
                   digestRuns>>

(***************************************************************************)
(* Data the jobs run on                                                    *)
(***************************************************************************)

ReviewerIds == {1, 2}

ReviewerMail(r) == Mail(<<"r", r>>, "a.org")

ReviewerUser(r, email) == NewUser(email, "reviewer", None, NoOrcid, None, None, None)

\* User collections: reviewer 1 has an address; reviewer 2 has one, or has
\* none, or has no document left
ReviewerCollections ==
    {<<ReviewerUser(1, ReviewerMail(1))>>,
     <<ReviewerUser(1, ReviewerMail(1)), ReviewerUser(2, ReviewerMail(2))>>,
     <<ReviewerUser(1, ReviewerMail(1)), ReviewerUser(2, NoMail)>>}

\* reviews of the first submission by either reviewer in any status, and of the
\* second by reviewer 2, completed or in progress
ReviewDocs ==
    {Review(1, r, st) : r \in ReviewerIds, st \in ReviewStatuses}
        \cup {Review(2, 2, st) : st \in {"submitted", "in_progress"}}

ReviewCollections == {R \in SUBSET ReviewDocs : Cardinality(R) <= MaxReviews}

QuietAuth ==
    /\ last = NoRequest
    /\ inflight = <<>>
    /\ Idle

\* One job call on two conferences (the first starts exactly seven days ahead,
\* the second seven or eight days ahead) and two submissions, of which the first
\* belongs to the first conference and has assigned reviewers.
InitReminders ==
    /\ QuietAuth
    /\ users \in ReviewerCollections
    /\ conferences \in {<<Conference(AddDays(0, 7)), Conference(AddDays(0, d))>> : d \in {7, 8}}
    /\ submissions \in
          {<<Submission(1, st1, a1), Submission(c2, st2, a2)>> :
              st1 \in {"submitted", "accepted"}, st2 \in {"under_review", "review_completed"},
              a1 \in {<<1>>, <<1, 2>>, <<2, 1>>}, a2 \in {<<>>, <<2>>, <<1, 2>>},
              c2 \in {1, 2}}
    /\ reviews \in ReviewCollections
    /\ day = 0
    /\ runs = <<>>
    /\ outbox = <<>>
    /\ rejected = {}
    /\ errors = {}
    /\ digestRuns = <<>>
    /\ returned = NoCall

SpecReminders == InitReminders /\ [][SendReviewReminders]_vars

\* start dates around the windows of the daily runs
StartDates ==
    {AddDays(0, 7) - 1, AddDays(0, 7), AddDays(0, 8) - 1, AddDays(0, 8),
     AddDays(0, 9), AddDays(0, 9) + 1}

\* Daily runs over two conferences with start dates around the windows, one
\* submission with one pending reviewer.
InitDaily ==
    /\ QuietAuth
    /\ users = <<ReviewerUser(1, ReviewerMail(1))>>
    /\ conferences \in {<<Conference(a), Conference(b)>> : a, b \in StartDates}
    /\ submissions = <<Submission(1, "under_review", <<1>>)>>
    /\ reviews = {}
    /\ day = 0
    /\ runs = <<>>
    /\ outbox = <<>>
    /\ rejected = {}
    /\ errors = {}
    /\ digestRuns = <<>>
    /\ returned = NoCall

NextDaily == CronReviewReminders \/ CronMissed

SpecDaily == InitDaily /\ [][NextDaily]_vars

(***************************************************************************)
(* The weekly digest job                                                   *)
(***************************************************************************)

\* endDate: null
NoDate == 0 - 1

\* a Conference document with the fields the digest job reads
DigestConference(startDate, endDate, organizerId) ==
    [startDate |-> startDate, endDate |-> endDate, organizerId |-> organizerId]

\* activeConferences with $gt in place of $gte
activeConferences_EndsLater(now) ==
    IdsWhere(conferences, LAMBDA c : \/ (/\ conferences[c].endDate # NoDate
                                         /\ conferences[c].endDate > now)
                                     \/ conferences[c].endDate = NoDate)

\* Conference.find({ $or: [{ endDate: { $gte: new Date() } }, { endDate: null }] })
activeConferences(now) ==
    IdsWhere(conferences, LAMBDA c : \/ (/\ conferences[c].endDate # NoDate
                                         /\ conferences[c].endDate >= now)
                                     \/ conferences[c].endDate = NoDate)

\* Submission.find({ conferenceId: conference._id }).distinct('_id')
ConferenceSubmissionIds(c) == {s \in 1..Len(submissions) : submissions[s].conferenceId = c}

\* Submission.countDocuments({ conferenceId: conference._id })
totalSubmissions(c) == Cardinality(ConferenceSubmissionIds(c))

\* Review.countDocuments({ submissionId: { $in: ... }, status: 'in_progress' })
pendingReviews(c) ==
    Cardinality({x \in reviews : /\ x.submissionId \in ConferenceSubmissionIds(c)
                                 /\ x.status = "in_progress"})

\* Review.countDocuments({ submissionId: { $in: ... },
\*                         status: { $in: ['submitted', 'pending_revision'] } })
completedReviews(c) ==
    Cardinality({x \in reviews : /\ x.submissionId \in ConferenceSubmissionIds(c)
                                 /\ x.status \in {"submitted", "pending_revision"}})

\* Submission.countDocuments({ conferenceId: conference._id, status: 'accepted' })
acceptedPapers(c) ==
    Cardinality({s \in ConferenceSubmissionIds(c) : submissions[s].status = "accepted"})

\* Submission.countDocuments({ conferenceId: conference._id, status: 'rejected' })
rejectedPapers(c) ==
    Cardinality({s \in ConferenceSubmissionIds(c) : submissions[s].status = "rejected"})

\* Submission.find({ conferenceId, status: 'under_review',
\*                   assignedReviewers: { $exists: true, $ne: [] } })
submissionsWithReviews(c) ==
    IdsWhere(submissions, LAMBDA s : /\ submissions[s].conferenceId = c
                                     /\ submissions[s].status = "under_review"
                                     /\ submissions[s].assignedReviewers # <<>>)

\* Review.countDocuments({ submissionId: submission._id,
\*                         status: { $in: ['submitted', 'pending_revision'] } })
reviewCount(s) ==
    Cardinality({x \in reviews : /\ x.submissionId = s
                                 /\ x.status \in {"submitted", "pending_revision"}})

\* awaitingDecision counting a submission only when it has more completed
\* reviews than assigned reviewers
awaitingDecision_StrictlyMore(c) ==
    LET subs == submissionsWithReviews(c)
    IN Cardinality({k \in 1..Len(subs) :
                       reviewCount(subs[k]) > Len(submissions[subs[k]].assignedReviewers)})

\* let awaitingDecision = 0; for (const submission of submissionsWithReviews)
\*   if (reviewCount >= submission.assignedReviewers.length) awaitingDecision++
awaitingDecision(c) ==
    LET subs == submissionsWithReviews(c)
    IN Cardinality({k \in 1..Len(subs) :
                       reviewCount(subs[k]) >= Len(submissions[subs[k]].assignedReviewers)})

\* const stats = { ... }
stats(c) ==
    [totalSubmissions |-> totalSubmissions(c),
     pendingReviews   |-> pendingReviews(c),
     completedReviews |-> completedReviews(c),
     awaitingDecision |-> awaitingDecision(c),
     acceptedPapers   |-> acceptedPapers(c),
     rejectedPapers   |-> rejectedPapers(c)]

\* sendEmail(organizer.email, templates.weeklyDigest(organizer, conference, stats))
DigestEmail(c) ==
    [to |-> users[conferences[c].organizerId].email,
     organizerId |-> conferences[c].organizerId,
     conferenceId |-> c,
     stats |-> stats(c)]

\* const organizer = await User.findById(conference.organizerId).lean();
\* if (organizer?.email) sendEmail(...)
ConferenceDigest(c) ==
    IF HasEmail(FindById(users, conferences[c].organizerId))
    THEN <<DigestEmail(c)>>
    ELSE <<>>

\* console.error('Error sending weekly digests:', error) of the outer catch,
\* reached from the iteration of conference c
DigestError(c) == [line |-> "Error sending weekly digests:", at |-> c]

\* One run of sendWeeklyDigest at time now in which the queries of the threw-th
\* active conference throw (0: none does): the try block encloses the whole
\* loop, so the conferences from that one on are not processed.
DigestRun(now, threw) ==
    LET active == activeConferences(now)
        done == IF threw = 0 THEN active ELSE SubSeq(active, 1, threw - 1)
    IN [at |-> now,
        active |-> {active[k] : k \in 1..Len(active)},
        threw |-> IF threw = 0 THEN 0 ELSE active[threw],
        emails |-> Flatten([k \in 1..Len(done) |-> ConferenceDigest(done[k])])]

\* sendWeeklyDigest(), called once at Now
SendWeeklyDigest ==
    /\ digestRuns = <<>>
    /\ \E threw \in 0..Len(activeConferences(Now)) :
          LET run == DigestRun(Now, threw)
          IN \E failing \in SUBSET (1..Len(run.emails)) :
                /\ outbox' = Dispatched(run.emails, failing)
                /\ rejected' = failing \cap (1..Len(outbox'))
                /\ errors' = EmailErrors(outbox', failing)
                                \cup (IF run.threw = 0 THEN {} ELSE {DigestError(run.threw)})
                /\ digestRuns' = Append(digestRuns, [at |-> run.at, active |-> run.active,
                                                     threw |-> run.threw])
                /\ UNCHANGED <<authVars, returned, procVars, pageVars,
                             conferences, submissions, reviews, day, runs>>

\* the organizer's user id, and an id with no user document
OrganizerIds == {3, 4}

\* User collections of the digest: two reviewers and an organizer with or
\* without an address
DigestUserCollections ==
    {<<ReviewerUser(1, ReviewerMail(1)), ReviewerUser(2, ReviewerMail(2)),
       NewUser(m, "organizer", None, NoOrcid, None, None, None)>> :
          m \in {Mail(<<"o">>, "a.org"), NoMail}}

\* end dates around the run time of day 1, and none
EndDates == {AddDays(0, 1) - 1, AddDays(0, 1), AddDays(0, 1) + 1, NoDate}

DigestReviewCollections ==
    SUBSET {Review(1, 1, "submitted"), Review(1, 2, "pending_revision"),
            Review(1, 2, "in_progress"), Review(2, 1, "submitted"), Review(2, 1, "draft")}

\* One job call on day 1 on two conferences that start seven and eight days
\* later, the second of which ends before, at or after the run, and two
\* submissions.
InitJobs ==
    /\ QuietAuth
    /\ users \in DigestUserCollections
    /\ conferences \in
          {<<DigestConference(AddDays(1, 7), e1, 3), DigestConference(AddDays(1, 8), e2, o2)>> :
              e1 \in EndDates, e2 \in {AddDays(0, 1) - 1, AddDays(0, 1)}, o2 \in OrganizerIds}
    /\ submissions \in
          {<<Submission(1, st1, a1), Submission(c2, st2, a2)>> :
              st1 \in {"under_review", "accepted"}, st2 \in {"under_review", "rejected"},
              a1 \in {<<1>>, <<1, 2>>}, a2 \in {<<>>, <<1>>}, c2 \in {1, 2}}
    /\ reviews \in DigestReviewCollections
    /\ day = 1
    /\ runs = <<>>
    /\ outbox = <<>>
    /\ rejected = {}
    /\ errors = {}
    /\ digestRuns = <<>>
    /\ returned = NoCall

\* either job, called once
NextJobs ==
    \/ digestRuns = <<>> /\ SendReviewReminders
    \/ runs = <<>> /\ SendWeeklyDigest

SpecJobs == InitJobs /\ [][NextJobs]_vars

(***************************************************************************)
(* The review reminder job: what the claims speak of                       *)
(***************************************************************************)

LastRun == runs[Len(runs)]

SubmissionIds == 1..Len(submissions)

AssignedTo(s) == {submissions[s].assignedReviewers[k] :
                     k \in 1..Len(submissions[s].assignedReviewers)}

\* reviewer r has a review of submission s with status submitted or pending_revision
Completed(s, r) ==
    \E x \in reviews : /\ x.submissionId = s
                       /\ x.reviewerId = r
                       /\ x.status \in {"submitted", "pending_revision"}

\* submission s is open for review in a conference the run selected
Reminded(run, s) ==
    /\ submissions[s].conferenceId \in run.selected
    /\ submissions[s].status \in {"submitted", "under_review"}

\* the (submission, pending reviewer) pairs of the conferences the run selected
PendingPairs(run) ==
    {p \in SubmissionIds \X ReviewerIds :
        Reminded(run, p[1]) /\ p[2] \in AssignedTo(p[1]) /\ ~Completed(p[1], p[2])}

\* the sendEmail calls of the run for submission s and reviewer r
Sent(s, r) == {k \in 1..Len(outbox) : outbox[k].submissionId = s /\ outbox[k].reviewerId = r}

SentTo(r) == {k \in 1..Len(outbox) : outbox[k].reviewerId = r}

\* reviewer r has a user document with an e-mail address
Reachable(r) == r \in Ids(users) /\ users[r].email # NoMail

C9_Original ==
    /\ \A k \in 1..Len(runs) :
          runs[k].selected =
             {c \in 1..Len(conferences) :
                 /\ conferences[c].startDate >= runs[k].at + 7 * DayLen
                 /\ conferences[c].startDate < runs[k].at + 8 * DayLen}
    /\ \A c \in 1..Len(conferences) :
          /\ Cardinality({k \in 1..Len(runs) : c \in runs[k].selected}) <= 1
          /\ (/\ Len(runs) = day
              /\ \E d \in 0..(day - 1) :
                    /\ conferences[c].startDate >= (d + 7) * DayLen
                    /\ conferences[c].startDate < (d + 8) * DayLen)
                => Cardinality({k \in 1..Len(runs) : c \in runs[k].selected}) = 1

LastDigest == digestRuns[Len(digestRuns)]

ConferenceIds == 1..Len(conferences)

\* conference c has not ended at time t: it ends at t or later, or has no end date
NotEnded(c, t) == conferences[c].endDate = NoDate \/ conferences[c].endDate >= t

\* the sendEmail calls of the digest run for conference c
DigestsFor(c) == {k \in 1..Len(outbox) : outbox[k].conferenceId = c}

\* the digests for conference c go to its organizer
ToOrganizer(c) ==
    \A k \in DigestsFor(c) :
        /\ outbox[k].organizerId = conferences[c].organizerId
        /\ outbox[k].to = users[conferences[c].organizerId].email

AwaitingDecision(c) ==
    {s \in SubmissionIds :
        /\ submissions[s].conferenceId = c
        /\ submissions[s].status = "under_review"
        /\ Len(submissions[s].assignedReviewers) >= 1
        /\ Cardinality({x \in reviews : /\ x.submissionId = s
                                        /\ x.status \in {"submitted", "pending_revision"}})
              >= Len(submissions[s].assignedReviewers)}

\* C12: the awaitingDecision count of a conference's digest is the number of
\* its submissions that are under review, have at least one assigned reviewer
\* and at least as many completed reviews (submitted or pending_revision) as
\* assigned reviewers; no accepted or rejected submission is among them.
C12_AwaitingDecisionCount ==
    digestRuns # <<>> =>
        \A k \in 1..Len(outbox) :
            /\ outbox[k].stats.awaitingDecision =
                  Cardinality(AwaitingDecision(outbox[k].conferenceId))
            /\ \A s \in AwaitingDecision(outbox[k].conferenceId) :
                  submissions[s].status \notin {"accepted", "rejected"}
            /\ outbox[k].stats.awaitingDecision + outbox[k].stats.acceptedPapers
                  + outbox[k].stats.rejectedPapers <= outbox[k].stats.totalSubmissions

\* C12 witness: the digest of conference 1 reports one submission awaiting a
\* decision (under review, its one assigned review submitted) next to a
\* rejected submission whose review is complete as well.
C12_Witness ==
    /\ digestRuns # <<>>
    /\ submissions[1] = Submission(1, "under_review", <<1>>)
    /\ submissions[2] = Submission(1, "rejected", <<1>>)
    /\ {Review(1, 1, "submitted"), Review(2, 1, "submitted")} \subseteq reviews
    /\ \E k \in 1..Len(outbox) :
          /\ outbox[k].conferenceId = 1
          /\ outbox[k].stats.awaitingDecision = 1
          /\ outbox[k].stats.rejectedPapers = 1

\* C13: in either job, every rejected dispatch is logged, and the run goes on:
\* every pending reviewer with an address still has a reminder, and every
\* active conference the digest run came to still has its digest, whichever
\* dispatches failed.
C13_DispatchFailureIsolated ==
    /\ \A k \in rejected : k \in 1..Len(outbox) /\ EmailError(k) \in errors
    /\ runs # <<>> =>
          \A p \in PendingPairs(LastRun) : Reachable(p[2]) => Sent(p[1], p[2]) # {}
    /\ digestRuns # <<>> =>
          \A c \in ConferenceIds :
              (/\ NotEnded(c, LastDigest.at)
               /\ Reachable(conferences[c].organizerId)
               /\ (LastDigest.threw = 0 \/ c < LastDigest.threw))
                 => DigestsFor(c) # {}

\* C13 witness: a digest run whose first dispatch was rejected and logged and
\* whose second digest was dispatched all the same.
C13_Witness ==
    /\ digestRuns # <<>>
    /\ rejected = {1}
    /\ EmailError(1) \in errors
    /\ Len(outbox) = 2
    /\ DigestsFor(2) = {2}

\* C14 as stated: when the queries of one conference fail in a digest run,
\* every other conference that has not ended still gets its digest in that run.
C14_Original ==
    digestRuns # <<>> =>
        \A c \in ConferenceIds :
            (/\ NotEnded(c, LastDigest.at)
             /\ Reachable(conferences[c].organizerId)
             /\ c # LastDigest.threw)
               => DigestsFor(c) # {}

(***************************************************************************)
(* Review aggregation: the read-only summary of a submission's reviews     *)
(***************************************************************************)

\* most reviews of one submission, and most assigned reviewers
MaxVotes == 3

Recommendations == {"accept", "reject", "minorRevision", "majorRevision"}

\* a review as the aggregation reads it
VotedReview(status, recommendation) == [status |-> status, recommendation |-> recommendation]

VotedReviews ==
    {VotedReview(st, rec) : st \in {"submitted", "pending_revision", "in_progress"},
                            rec \in Recommendations}

\* the review lists of a submission, in any order
ReviewLists == UNION {[1..n -> VotedReviews] : n \in 0..MaxVotes}

\* the reviews with status submitted or pending_revision
completedOf(revs) == SelectSeq(revs, LAMBDA x : x.status \in {"submitted", "pending_revision"})

\* counts of the completed reviews by recommendation value
voteBreakdown(revs) ==
    LET count(rec) == Len(SelectSeq(completedOf(revs), LAMBDA x : x.recommendation = rec))
    IN [accept |-> count("accept"), reject |-> count("reject"),
        minorRevision |-> count("minorRevision"), majorRevision |-> count("majorRevision")]

\* percentage reporting a submission without assigned reviewers as fully reviewed
percentage_NoneRequiredIsDone(completed, required) ==
    IF required = 0 THEN 100
    ELSE IF (completed * 100) \div required > 100 THEN 100
         ELSE (completed * 100) \div required

\* floor(completed / required * 100), kept within [0, 100]; 0 when required = 0
percentage(completed, required) ==
    IF required = 0 THEN 0
    ELSE IF (completed * 100) \div required > 100 THEN 100
         ELSE (completed * 100) \div required

\* { completed, required, percentage }
reviewProgress(required, revs) ==
    [completed |-> Len(completedOf(revs)),
     required |-> required,
     percentage |-> percentage(Len(completedOf(revs)), required)]

\* votes by decision category: both kinds of revision count for NEEDS_REVISION
categoryVotes(v) ==
    [ACCEPTED |-> v.accept, REJECTED |-> v.reject,
     NEEDS_REVISION |-> v.minorRevision + v.majorRevision]

Categories == {"ACCEPTED", "REJECTED", "NEEDS_REVISION"}

\* on a tie: NEEDS_REVISION before REJECTED before ACCEPTED
TiePreference == <<"NEEDS_REVISION", "REJECTED", "ACCEPTED">>

\* decide breaking a tie among the categories that share the highest count only
decide_TieAmongLeaders(v) ==
    LET c == categoryVotes(v)
        leaders == {x \in Categories : \A y \in Categories : c[x] >= c[y]}
    IN TiePreference[CHOOSE k \in 1..3 :
                        /\ TiePreference[k] \in leaders
                        /\ \A j \in 1..(k - 1) : TiePreference[j] \notin leaders]

\* the category with the strictly highest count; without one, the first of
\* the tie preference
decide(v) ==
    LET c == categoryVotes(v)
        winners == {x \in Categories : \A y \in Categories \ {x} : c[x] > c[y]}
    IN IF winners # {} THEN CHOOSE x \in winners : TRUE ELSE TiePreference[1]

\* majorityDecision computed as soon as one review is completed
majorityDecision_AnyCompleted(required, revs) ==
    IF Len(completedOf(revs)) > 0 THEN decide(voteBreakdown(revs)) ELSE None

\* computed only when completed >= required and there is an assigned reviewer
majorityDecision(required, revs) ==
    IF required > 0 /\ Len(completedOf(revs)) >= required
    THEN decide(voteBreakdown(revs))
    ELSE None

\* the summary of a submission with `required` assigned reviewers and reviews revs
Aggregation(required, revs) ==
    [reviewProgress |-> reviewProgress(required, revs),
     voteBreakdown |-> voteBreakdown(revs),
     majorityDecision |-> majorityDecision(required, revs)]

\* the aggregation is read for a submission
Aggregate ==
    /\ returned = NoCall
    /\ \E required \in 0..MaxVotes, revs \in ReviewLists :
          returned' = [fn |-> "aggregate", required |-> required, reviews |-> revs,
                       summary |-> Aggregation(required, revs)]
    /\ UNCHANGED <<authVars, jobVars, procVars, pageVars>>

SpecAggregation == InitAuth /\ [][Aggregate]_vars

(***************************************************************************)
(* Review aggregation: what the claims speak of                            *)
(***************************************************************************)

Aggregated == returned.fn = "aggregate"

\* positions of the completed reviews in the list that was read
CompletedAt == {k \in 1..Len(returned.reviews) :
                   returned.reviews[k].status \in {"submitted", "pending_revision"}}

\* completed reviews that recommend one of recs
VotesFor(recs) == Cardinality({k \in CompletedAt : returned.reviews[k].recommendation \in recs})

\* the recommendations of the completed reviews, in list order
CompletedRecommendations ==
    LET done == SelectSeq(returned.reviews,
                          LAMBDA x : x.status \in {"submitted", "pending_revision"})
    IN [k \in 1..Len(done) |-> done[k].recommendation]

\* the review lists that are revs with two of its reviews swapped; every
\* other order is reached by a chain of swaps, each list of which is read too
Reorderings(revs) ==
    {[k \in 1..Len(revs) |-> IF k = i THEN revs[j] ELSE IF k = j THEN revs[i] ELSE revs[k]] :
        i \in 1..Len(revs), j \in 1..Len(revs)}

\* C15: the summary has a majority decision exactly when the number of
\* completed reviews is at least the required number and the required number
\* is greater than zero.
C15_DecisionPresentIffQuotaMet ==
    Aggregated =>
        (returned.summary.majorityDecision # None
            <=> (Cardinality(CompletedAt) >= returned.required /\ returned.required > 0))

\* C15 witness: two reviewers required, two reviews completed and a third in
\* progress: the decision is present.
C15_Witness ==
    /\ Aggregated
    /\ returned.required = 2
    /\ Cardinality(CompletedAt) = 2
    /\ Len(returned.reviews) = 3
    /\ returned.summary.majorityDecision # None

\* C16: a computed majority decision is the category with the strictly highest
\* count of completed recommendations; without one it is NEEDS_REVISION, the
\* first of the preference NEEDS_REVISION, REJECTED, ACCEPTED; accept, accept,
\* reject give ACCEPTED and accept, reject with two required give
\* NEEDS_REVISION; the same reviews in another order give the same decision.
C16_MajorityRule ==
    (Aggregated /\ returned.summary.majorityDecision # None) =>
        LET a == VotesFor({"accept"})
            r == VotesFor({"reject"})
            n == VotesFor({"minorRevision", "majorRevision"})
            d == returned.summary.majorityDecision
        IN /\ (a > r /\ a > n) => d = "ACCEPTED"
           /\ (r > a /\ r > n) => d = "REJECTED"
           /\ (n > a /\ n > r) => d = "NEEDS_REVISION"
           /\ ~(a > r /\ a > n) /\ ~(r > a /\ r > n) => d = "NEEDS_REVISION"
           /\ CompletedRecommendations = <<"accept", "accept", "reject">> => d = "ACCEPTED"
           /\ (CompletedRecommendations = <<"accept", "reject">> /\ returned.required = 2)
                 => d = "NEEDS_REVISION"
           /\ \A other \in Reorderings(returned.reviews) :
                 majorityDecision(returned.required, other) = d

\* C16 witness: two reviewers required, one completed review recommends accept
\* and the other reject: the decision is NEEDS_REVISION.
C16_Witness ==
    /\ Aggregated
    /\ returned.required = 2
    /\ CompletedRecommendations = <<"accept", "reject">>
    /\ returned.summary.majorityDecision = "NEEDS_REVISION"

\* C17: for a submission without assigned reviewers the summary has percentage
\* 0 and no majority decision, whatever reviews exist for it.
C17_NoReviewersNoProgress ==
    (Aggregated /\ returned.required = 0) =>
        /\ returned.summary.reviewProgress.percentage = 0
        /\ returned.summary.majorityDecision = None

\* C17 witness: no reviewer assigned, yet two completed reviews exist.
C17_Witness ==
    /\ Aggregated
    /\ returned.required = 0
    /\ Cardinality(CompletedAt) = 2
    /\ returned.summary.reviewProgress.percentage = 0
    /\ returned.summary.majorityDecision = None

(***************************************************************************)
(* Lifecycle of submissions and reviews: reviewers are assigned, a review  *)
(* is created when an assigned reviewer accepts, and a review moves        *)
(* through its statuses by the reviewer's and the organizer's actions.     *)
(***************************************************************************)

\* CreateReview without the check that the reviewer is assigned
CanCreateReview_Unassigned(s, r) ==
    ~\E x \in reviews : x.submissionId = s /\ x.reviewerId = r

\* a review is created for an assigned reviewer who has none for the submission
CanCreateReview(s, r) ==
    /\ \E k \in 1..Len(submissions[s].assignedReviewers) :
          submissions[s].assignedReviewers[k] = r
    /\ ~\E x \in reviews : x.submissionId = s /\ x.reviewerId = r

\* the organizer assigns reviewer r to submission s, which goes under review
AssignReviewer ==
    \E s \in 1..Len(submissions), r \in ReviewerIds :
        /\ \A k \in 1..Len(submissions[s].assignedReviewers) :
              submissions[s].assignedReviewers[k] # r
        /\ submissions' =
              [submissions EXCEPT ![s].assignedReviewers = Append(@, r),
                                  ![s].status = "under_review"]
        /\ UNCHANGED <<authVars, returned, procVars, pageVars,
                             conferences, reviews, day, runs, outbox, rejected,
                       errors, digestRuns>>

\* reviewer r accepts the assignment to submission s: the review is created
CreateReview ==
    \E s \in 1..Len(submissions), r \in ReviewerIds :
        /\ CanCreateReview(s, r)
        /\ reviews' = reviews \cup {Review(s, r, "draft")}
        /\ UNCHANGED <<authVars, returned, procVars, pageVars,
                             conferences, submissions, day, runs, outbox, rejected,
                       errors, digestRuns>>

\* the status a review can move to from status st
NextReviewStatuses(st) ==
    CASE st = "draft" -> {"in_progress", "submitted"}
      [] st = "in_progress" -> {"submitted"}
      [] st = "submitted" -> {"pending_revision"}
      [] st = "pending_revision" -> {"submitted"}

\* a review moves to its next status (saved, submitted, sent back for revision)
ReviewTransition ==
    \E x \in reviews, st \in ReviewStatuses :
        /\ st \in NextReviewStatuses(x.status)
        /\ reviews' = (reviews \ {x}) \cup {Review(x.submissionId, x.reviewerId, st)}
        /\ UNCHANGED <<authVars, returned, procVars, pageVars,
                             conferences, submissions, day, runs, outbox, rejected,
                       errors, digestRuns>>

\* two submissions just authored, no reviewer assigned, no review
InitLifecycle ==
    /\ QuietAuth
    /\ users = <<ReviewerUser(1, ReviewerMail(1)), ReviewerUser(2, ReviewerMail(2))>>
    /\ conferences = <<Conference(AddDays(0, 7))>>
    /\ submissions = <<Submission(1, "submitted", <<>>), Submission(1, "submitted", <<>>)>>
    /\ reviews = {}
    /\ day = 0
    /\ runs = <<>>
    /\ outbox = <<>>
    /\ rejected = {}
    /\ errors = {}
    /\ digestRuns = <<>>
    /\ returned = NoCall

NextLifecycle == AssignReviewer \/ CreateReview \/ ReviewTransition

SpecLifecycle == InitLifecycle /\ [][NextLifecycle]_vars

MaxTail == 2

\* null / undefined
Null == <<"null">>

Http == <<"h", "t", "t", "p", ":", "/", "/">>

Https == <<"h", "t", "t", "p", "s", ":", "/", "/">>

\* 'https://cms-backend-fjdo.onrender.com'
DefaultBackend ==
    Https \o <<"c", "m", "s", "-", "b", "a", "c", "k", "e", "n", "d", "-", "f", "j", "d", "o",
               ".", "o", "n", "r", "e", "n", "d", "e", "r", ".", "c", "o", "m">>

\* str.startsWith(prefix)
startsWith(str, prefix) ==
    Len(str) >= Len(prefix) /\ SubSeq(str, 1, Len(prefix)) = prefix

\* str.replace(pattern, replacement): the first occurrence only
replace(str, pattern, replacement) ==
    LET at == {i \in 1..Len(str) :
                  /\ i + Len(pattern) - 1 <= Len(str)
                  /\ SubSeq(str, i, i + Len(pattern) - 1) = pattern}
    IN IF at = {} THEN str
       ELSE LET i == CHOOSE k \in at : \A j \in at : k <= j
            IN SubSeq(str, 1, i - 1) \o replacement
                  \o SubSeq(str, i + Len(pattern), Len(str))

\* !value, for a string or null / undefined
Falsy(value) == value = Null \/ value = <<>>

\* process.env.REACT_APP_API_URL?.replace('/api', '') || 'https://cms-backend-fjdo.onrender.com'
API_BASE_URL(env) ==
    LET stripped == IF env = Null THEN Null ELSE replace(env, <<"/", "a", "p", "i">>, <<>>)
    IN IF Falsy(stripped) THEN DefaultBackend ELSE stripped

\* getDirectUrl prepending the backend URL to every path that is not a full URL
getDirectUrl_PrependsAny(base, fileUrl) ==
    IF Falsy(fileUrl) THEN <<>>
    ELSE IF startsWith(fileUrl, Http) \/ startsWith(fileUrl, Https) THEN fileUrl
    ELSE base \o fileUrl

\* export const getDirectUrl = (fileUrl) => { ... }
getDirectUrl(base, fileUrl) ==
    IF Falsy(fileUrl) THEN <<>>
    ELSE IF startsWith(fileUrl, Http) \/ startsWith(fileUrl, Https) THEN fileUrl
    ELSE IF startsWith(fileUrl, <<"/">>) THEN base \o fileUrl
    ELSE fileUrl

\* export const getFileUrl = getDirectUrl
getFileUrl(base, fileUrl) == getDirectUrl(base, fileUrl)

\* REACT_APP_API_URL: unset, the bare /api path, or the address of a local backend
ApiUrls == {Null, <<"/", "a", "p", "i">>, Http \o <<"l", ":", "5", "/", "a", "p", "i">>}

\* how a stored file URL begins: nothing, a scheme, nearly a scheme, a scheme
\* in capitals, a slash, a letter
UrlHeads ==
    {<<>>, Http, Https, <<"h", "t", "t", "p", ":", "/">>,
     <<"H", "T", "T", "P", ":", "/", "/">>, <<"/">>, <<"u">>}

UrlTails == UNION {[1..n -> {"a", "/"}] : n \in 0..MaxTail}

FileUrls == {Null} \cup {head \o tail : head \in UrlHeads, tail \in UrlTails}

\* a component asks for the URL of a stored file
GetDirectUrl ==
    /\ returned = NoCall
    /\ \E env \in ApiUrls, fileUrl \in FileUrls, fn \in {"getDirectUrl", "getFileUrl"} :
          returned' = [fn |-> fn, env |-> env, fileUrl |-> fileUrl,
                       url |-> IF fn = "getFileUrl"
                               THEN getFileUrl(API_BASE_URL(env), fileUrl)
                               ELSE getDirectUrl(API_BASE_URL(env), fileUrl)]
    /\ UNCHANGED <<authVars, jobVars, procVars, pageVars>>

\* most pieces in the stem of a stored file's name
MaxStem == 4

PdfExt == <<".", "p", "d", "f">>

Paper == <<"p", "a", "p", "e", "r">>

\* str.split(separator), separator a single character
RECURSIVE split(_, _)
split(str, separator) ==
    LET at == {i \in 1..Len(str) : str[i] = separator}
    IN IF at = {} THEN <<str>>
       ELSE LET i == CHOOSE k \in at : \A j \in at : k <= j
            IN <<SubSeq(str, 1, i - 1)>> \o split(SubSeq(str, i + 1, Len(str)), separator)

\* array.pop(): the last element
pop(array) == array[Len(array)]

\* str.endsWith(suffix)
endsWith(str, suffix) ==
    Len(str) >= Len(suffix) /\ SubSeq(str, Len(str) - Len(suffix) + 1, Len(str)) = suffix

Digits == {"0", "1", "2", "3", "4", "5", "6", "7", "8", "9"}

LowerLetters ==
    {"a", "b", "c", "d", "e", "f", "g", "h", "i", "j", "k", "l", "m",
     "n", "o", "p", "q", "r", "s", "t", "u", "v", "w", "x", "y", "z"}

UpperLetters ==
    {"A", "B", "C", "D", "E", "F", "G", "H", "I", "J", "K", "L", "M",
     "N", "O", "P", "Q", "R", "S", "T", "U", "V", "W", "X", "Y", "Z"}

\* the lower-case form of the capitals that file names here are written with
LowerOf == [c \in {"P", "D", "F", "A"} |->
               CASE c = "P" -> "p" [] c = "D" -> "d" [] c = "F" -> "f" [] c = "A" -> "a"]

\* str.toLowerCase()
toLowerCase(str) ==
    [i \in 1..Len(str) |-> IF str[i] \in DOMAIN LowerOf THEN LowerOf[str[i]] ELSE str[i]]

\* filename.replace(/^fl_(inline|attachment)\//, '')
stripFlag(filename) ==
    LET inline == <<"f", "l", "_", "i", "n", "l", "i", "n", "e", "/">>
        attachment == <<"f", "l", "_", "a", "t", "t", "a", "c", "h", "m", "e", "n", "t", "/">>
    IN IF startsWith(filename, inline)
       THEN SubSeq(filename, Len(inline) + 1, Len(filename))
       ELSE IF startsWith(filename, attachment)
       THEN SubSeq(filename, Len(attachment) + 1, Len(filename))
       ELSE filename

\* /paper-\d+-\d+/.test(filename): the pattern anywhere in the name
cloudinaryStyle(filename) ==
    \E i \in 1..Len(filename) : \E j \in (i + 6)..Len(filename) :
        /\ SubSeq(filename, i, i + 5) = Paper \o <<"-">>
        /\ \A k \in (i + 6)..j : filename[k] \in Digits
        /\ j + 2 <= Len(filename)
        /\ filename[j + 1] = "-"
        /\ filename[j + 2] \in Digits

\* filename.replace(/[^a-zA-Z0-9._-]/g, '_')
clean(filename) ==
    [i \in 1..Len(filename) |->
        IF filename[i] \in LowerLetters \cup UpperLetters \cup Digits \cup {".", "_", "-"}
        THEN filename[i] ELSE "_"]

\* `${defaultName}.pdf`
defaultPdf(defaultName) ==
    (IF defaultName = Null THEN <<"n", "u", "l", "l">> ELSE defaultName) \o PdfExt

\* extractFilename comparing the extension as written
extractFilename_CaseSensitive(fileUrl, defaultName) ==
    IF Falsy(fileUrl) THEN defaultPdf(defaultName)
    ELSE LET urlPath == split(fileUrl, "?")[1]
             segment == stripFlag(pop(split(urlPath, "/")))
             filename == IF startsWith(segment, Paper \o <<"-">>)
                                /\ cloudinaryStyle(segment)
                         THEN defaultName ELSE segment
         IN IF filename = Null THEN defaultPdf(defaultName)
            ELSE clean(IF ~endsWith(filename, PdfExt)
                       THEN filename \o PdfExt ELSE filename)

\* export const extractFilename = (fileUrl, defaultName = 'paper') => { ... };
\* a null default name makes filename.toLowerCase() throw, which the catch
\* block answers
extractFilename(fileUrl, defaultName) ==
    IF Falsy(fileUrl) THEN defaultPdf(defaultName)
    ELSE LET urlPath == split(fileUrl, "?")[1]
             segment == stripFlag(pop(split(urlPath, "/")))
             filename == IF startsWith(segment, Paper \o <<"-">>)
                                /\ cloudinaryStyle(segment)
                         THEN defaultName ELSE segment
         IN IF filename = Null THEN defaultPdf(defaultName)
            ELSE clean(IF ~endsWith(toLowerCase(filename), PdfExt)
                       THEN filename \o PdfExt ELSE filename)

\* the pieces a stored file's name is made of
StemPieces == {Paper \o <<"-">>, <<"1">>, <<"-">>, <<" ">>}

RECURSIVE Stems(_)
Stems(n) ==
    IF n = 0 THEN {<<>>}
    ELSE Stems(n - 1) \cup {stem \o piece : stem \in Stems(n - 1), piece \in StemPieces}

\* no extension, .pdf, .PDF, another extension
Extensions == {<<>>, PdfExt, <<".", "P", "D", "F">>, <<".", "p", "d">>}

\* where the file is stored: nowhere, in a folder, behind a delivery flag
Folders == {<<>>, <<"a", "/">>, <<"a", "/", "f", "l", "_", "i", "n", "l", "i", "n", "e", "/">>}

\* no query string, or one that holds a slash and an extension
Queries == {<<>>, <<"?", "v", "/", "1", ".", "p", "d", "f">>}

DownloadUrls ==
    {Null} \cup {folder \o stem \o ext \o query :
                    folder \in Folders, stem \in Stems(MaxStem), ext \in Extensions,
                    query \in Queries}

\* the default, a name that has its extension, a null name
DefaultNames == {Paper, <<"A", ".", "P", "D", "F">>, Null}

\* a component asks for the name to download a file under
ExtractFilename ==
    /\ returned = NoCall
    /\ \E fileUrl \in DownloadUrls, defaultName \in DefaultNames :
          returned' = [fn |-> "extractFilename", fileUrl |-> fileUrl,
                       defaultName |-> defaultName,
                       filename |-> extractFilename(fileUrl, defaultName)]
    /\ UNCHANGED <<authVars, jobVars, procVars, pageVars>>

NextPdfHelper == GetDirectUrl \/ ExtractFilename

SpecPdfHelper == InitAuth /\ [][NextPdfHelper]_vars

\* the backend base URL the module was loaded with
BackendOf(env) ==
    IF env = Null \/ env = <<"/", "a", "p", "i">>
    THEN DefaultBackend
    ELSE replace(env, <<"/", "a", "p", "i">>, <<>>)

\* C20: getDirectUrl, and getFileUrl alike, returns '' for an empty input, a
\* string that starts with http:// or https:// unchanged, the backend base URL
\* followed by the input for a path that starts with '/', and any other string
\* unchanged.
C20_GetDirectUrl ==
    returned.fn \in {"getDirectUrl", "getFileUrl"} =>
        LET given == returned.fileUrl
        IN /\ (given = <<>> \/ given = Null) => returned.url = <<>>
           /\ (/\ given # Null /\ given # <<>>
               /\ (startsWith(given, Http) \/ startsWith(given, Https)))
                 => returned.url = given
           /\ (given # Null /\ given # <<>> /\ Head(given) = "/")
                 => returned.url = BackendOf(returned.env) \o given
           /\ (/\ given # Null /\ given # <<>> /\ Head(given) # "/"
               /\ ~startsWith(given, Http) /\ ~startsWith(given, Https))
                 => returned.url = given

\* C20 witness: getFileUrl was asked for the relative path /a with no API URL
\* configured and returned the default backend URL followed by /a.
C20_Witness ==
    /\ returned.fn = "getFileUrl"
    /\ returned.env = Null
    /\ returned.fileUrl = <<"/", "a">>
    /\ returned.url = DefaultBackend \o <<"/", "a">>

\* the last path segment of a file URL, query string dropped
LastSegment(fileUrl) == pop(split(split(fileUrl, "?")[1], "/"))

\* paper-<digits>-<digits>, with or without an extension
CloudinaryName(name) ==
    \E j \in 7..Len(name) : \E k \in (j + 2)..Len(name) :
        /\ SubSeq(name, 1, 6) = Paper \o <<"-">>
        /\ \A i \in 7..j : name[i] \in Digits
        /\ name[j + 1] = "-"
        /\ \A i \in (j + 2)..k : name[i] \in Digits
        /\ SubSeq(name, k + 1, Len(name)) \in Extensions

\* C21: extractFilename returns a name that ends with .pdf, compared without
\* regard to case: the default name followed by .pdf for an empty input, the
\* default name (followed by .pdf unless it has the extension) for a
\* paper-<digits>-<digits> name, and, when the URL's last segment already ends
\* with .pdf, that segment with its unsafe characters replaced and nothing
\* appended, unless the default name took its place.
C21_ExtractFilenameEndsWithPdf ==
    returned.fn = "extractFilename" =>
        LET given == returned.fileUrl
            default == returned.defaultName
            named == IF default = Null THEN <<"n", "u", "l", "l">> ELSE default
            defaulted == IF endsWith(toLowerCase(named), PdfExt) THEN named
                         ELSE named \o PdfExt
        IN /\ endsWith(toLowerCase(returned.filename), PdfExt)
           /\ (given = Null \/ given = <<>>) => returned.filename = named \o PdfExt
           /\ (given # Null /\ given # <<>> /\ CloudinaryName(LastSegment(given)))
                 => returned.filename = defaulted
           /\ (/\ given # Null /\ given # <<>>
               /\ endsWith(toLowerCase(LastSegment(given)), PdfExt))
                 => returned.filename \in {clean(LastSegment(given)), defaulted}

\* C21 witness: the name paper-1-1.PDF in a folder, asked for with the default
\* name, came back as paper.pdf.
C21_Witness ==
    /\ returned.fn = "extractFilename"
    /\ CloudinaryName(LastSegment(returned.fileUrl))
    /\ returned.fileUrl = <<"a", "/">> \o Paper \o <<"-", "1", "-", "1", ".", "P", "D", "F">>
    /\ returned.defaultName = Paper
    /\ returned.filename = Paper \o PdfExt

(***************************************************************************)
(* Email service: sendEmail over the configured client or the development  *)
(* fallback                                                                *)
(***************************************************************************)

\* latest clock reading of a sendEmail call
MaxClock == 2

\* no message identifier
NoId == <<>>

\* RESEND_API_KEY unset, or set
ApiKeys == {"", "re_key"}

\* createResendClient(): the Resend client when RESEND_API_KEY is set, the
\* development fallback otherwise
createResendClient(apiKey) == IF apiKey # "" THEN "httpApi" ELSE "console"

\* what a template renders to
Template(subject, cc) == [subject |-> subject, cc |-> cc, text |-> <<subject, "text">>]

Templates == {Template(sub, cc) : sub \in {"Review Reminder", "Weekly Digest", "Paper Submission Confirmed"},
                                  cc \in {<<>>, <<"co@a.org">>}}

Recipients == {"a@a.org", "b@a.org", "c@a.org"}

\* the message handed to the client
Message(to, template) ==
    [to |-> to, cc |-> template.cc, subject |-> template.subject, text |-> template.text]

\* a console line of the email service
MailLog(line, message, messageId) ==
    [line |-> line, message |-> message, messageId |-> messageId]

\* what a call of sendEmail comes to
MailOutcome(settled, messageId, console, delivered) ==
    [settled |-> settled, messageId |-> messageId, console |-> console,
     delivered |-> delivered]

\* the development fallback logging the message and returning nothing
devSend_LogsOnly(message, now) ==
    MailOutcome("resolved", NoId,
                <<MailLog("EMAIL (Development Mode):", message, NoId)>>, <<>>)

\* development fallback: the rendered message is logged, nothing leaves the
\* process, and the result carries the identifier 'dev-<timestamp>'
devSend(message, now) ==
    MailOutcome("resolved", <<"dev-", now>>,
                <<MailLog("EMAIL (Development Mode):", message, NoId),
                  MailLog("Email sent:", message, <<"dev-", now>>)>>,
                <<>>)

\* the configured client: the provider accepts the message and returns its
\* identifier, or refuses it and the call rejects
apiSend(message, providerId) ==
    IF providerId # NoId
    THEN MailOutcome("resolved", providerId,
                     <<MailLog("Email sent:", message, providerId)>>, <<message>>)
    ELSE MailOutcome("rejected", NoId, <<MailLog("Email error:", message, NoId)>>, <<>>)

\* sendEmail(to, template)
sendEmail(apiKey, to, template, now, providerId) ==
    IF createResendClient(apiKey) = "console"
    THEN devSend(Message(to, template), now)
    ELSE apiSend(Message(to, template), providerId)

\* identifiers the provider returns, and none when it refuses the message
ProviderIds == {NoId, <<"id-", 1>>}

\* a caller sends one email
SendEmail ==
    /\ returned = NoCall
    /\ \E apiKey \in ApiKeys, to \in Recipients, template \in Templates,
          now \in 0..MaxClock, providerId \in ProviderIds :
          returned' = [fn |-> "sendEmail", apiKey |-> apiKey, to |-> to,
                       template |-> template, now |-> now,
                       result |-> sendEmail(apiKey, to, template, now, providerId)]
    /\ UNCHANGED <<authVars, jobVars, procVars, pageVars>>

SpecEmail == InitAuth /\ [][SendEmail]_vars

\* C19: without a configured transport sendEmail delivers nothing outside the
\* process, logs the rendered message, and resolves with a (synthetic) message
\* identifier; with one, a call that resolves has delivered the message and
\* carries the provider's identifier: a resolved call has a message identifier
\* in both modes.
C19_OneCallContract ==
    returned.fn = "sendEmail" =>
        LET message == [to |-> returned.to, cc |-> returned.template.cc,
                        subject |-> returned.template.subject,
                        text |-> returned.template.text]
            out == returned.result
        IN /\ returned.apiKey = "" =>
                 /\ out.delivered = <<>>
                 /\ \E k \in 1..Len(out.console) : out.console[k].message = message
                 /\ out.settled = "resolved"
                 /\ out.messageId # NoId
                 /\ out.messageId[1] = "dev-"
           /\ (returned.apiKey # "" /\ out.settled = "resolved") =>
                 /\ out.delivered = <<message>>
                 /\ out.messageId # NoId
           /\ out.settled = "resolved" => out.messageId # NoId

\* C19 witness: with no API key set, a weekly digest with a CC was logged, not
\* delivered, and the call resolved with the identifier dev-1.
C19_Witness ==
    /\ returned.fn = "sendEmail"
    /\ returned.apiKey = ""
    /\ returned.template = Template("Weekly Digest", <<"co@a.org">>)
    /\ returned.result.delivered = <<>>
    /\ returned.result.settled = "resolved"
    /\ returned.result.messageId = <<"dev-", 1>>

(***************************************************************************)
(* Registration, login and the Google callback's isNewUser: what the       *)
(* claims speak of                                                         *)
(***************************************************************************)

\* the response of l as the client sees it
Answer(l) ==
    [status |-> l.status, reason |-> l.reason, userId |-> l.userId,
     tokenRole |-> l.tokenRole]

\* C26: a registration for an e-mail address that has an account is answered
\* 400 and leaves the accounts as they are, whatever role it asks for; a
\* registration is answered 201 only when no account has the address, and
\* then adds exactly one account, with that address and role.
C26_RegisterExistingEmailFails ==
    [][(last'.op = "register" /\ vars' # vars) =>
          /\ (last'.pre = "ok" /\ EmailAccounts(users, last') # {})
                => (last'.status = 400 /\ users' = users)
          /\ last'.status # 201 => users' = users
          /\ last'.status = 201 =>
                /\ EmailAccounts(users, last') = {}
                /\ Len(users') = Len(users) + 1
                /\ SubSeq(users', 1, Len(users)) = users
                /\ users'[Len(users')].email = last'.email
                /\ users'[Len(users')].role = last'.role]_vars

\* C26 witness: a registration as reviewer for an address that has an author
\* account, and no other, was answered 400.
C26_Witness ==
    /\ last.op = "register"
    /\ last.role = "reviewer"
    /\ last.status = 400
    /\ last.reason = "email_registered"
    /\ \E i \in Ids(users) : users[i].email = last.email /\ users[i].role = "author"
    /\ \A i \in Ids(users) : users[i].email = last.email => users[i].role = "author"

\* C27: a login with an unknown e-mail address and a login with a known
\* address and a wrong password get the same response, 401 'Invalid
\* credentials', no token, and leave the accounts as they are.
C27_LoginDoesNotRevealEmail ==
    [][(/\ last'.op = "login"
        /\ last'.pre = "ok"
        /\ vars' # vars
        /\ (EmailAccounts(users, last') = {} \/ ~last'.passwordValid))
       => (/\ Answer(last') = [status |-> 401, reason |-> "Invalid credentials",
                               userId |-> 0, tokenRole |-> None]
           /\ users' = users)]_vars

\* C27 witness: a login for an address that has an account, with a wrong
\* password, was answered 401.
C27_Witness ==
    /\ last.op = "login"
    /\ last.pre = "ok"
    /\ ~last.passwordValid
    /\ EmailAccounts(users, last) # {}
    /\ last.status = 401
    /\ last.reason = "Invalid credentials"

\* C28 as stated: the Google callback answers isNewUser true exactly when the
\* call created an account, and false when it reused or linked one.
C28_Original ==
    [][(last'.op = "google" /\ last'.status = 200 /\ vars' # vars)
          => (last'.isNewUser <=> Len(users') = Len(users) + 1)]_vars

(***************************************************************************)
(* The scheduled jobs as async functions: a call runs from one await to    *)
(* the next, and the calls in progress take their steps in any order       *)
(***************************************************************************)

\* most calls of the jobs
MaxRuns == 2

Jobs == {"sendReviewReminders", "sendWeeklyDigest"}

\* the call is between its first line and its last
Executing(p) == procs[p].state \in {"find", "loop"}

\* a call that would wait for the earlier calls of the same job to end
CanStart_OneAtATime(job) ==
    /\ Len(procs) < MaxRuns
    /\ \A p \in 1..Len(procs) : procs[p].job = job => ~Executing(p)

\* cron.schedule(..., () => { sendReviewReminders(); }) and the exported
\* functions call the job whatever the earlier calls are doing
CanStart(job) == Len(procs) < MaxRuns

\* the job's first lines, up to await Conference.find(...): the clock is read,
\* the query is issued.  during: the calls that were executing at that moment.
StartJob(job) ==
    /\ CanStart(job)
    /\ procs' = Append(procs, [job |-> job, at |-> Now, state |-> "find",
                               todo |-> <<>>, queue |-> <<>>, sent |-> <<>>,
                               lines |-> <<>>, threw |-> FALSE,
                               during |-> {p \in 1..Len(procs) : Executing(p)}])
    /\ UNCHANGED <<authVars, jobVars, returned, pageVars>>

\* what Conference.find returns to the call
FoundConferences(job, at) ==
    IF job = "sendReviewReminders"
    THEN upcomingConferences(AddDays(at, ReminderLeadDays), AddDays(at, ReminderWindowEndDays))
    ELSE activeConferences(at)

\* the sendEmail calls the iteration of conference c leads to, in order
ConferenceEmails(job, c) ==
    IF job = "sendReviewReminders" THEN ConferenceReminders(c) ELSE ConferenceDigest(c)

\* console.log at the end of the try block
SentLine(job) ==
    IF job = "sendReviewReminders" THEN "Review reminders sent" ELSE "Weekly digests sent"

\* console.error of the catch block
ErrorLine(job) ==
    IF job = "sendReviewReminders" THEN "Error sending review reminders:"
    ELSE "Error sending weekly digests:"

\* the call has nothing left to iterate over: it logs and returns
Finished(run) ==
    IF run.todo = <<>> /\ run.queue = <<>>
    THEN [run EXCEPT !.state = "resolved", !.lines = Append(@, SentLine(run.job))]
    ELSE run

\* await Conference.find(...) resolves
Find(p) ==
    /\ procs[p].state = "find"
    /\ LET found == FoundConferences(procs[p].job, procs[p].at)
       IN procs' = [procs EXCEPT ![p] =
             IF procs[p].job = "sendReviewReminders" /\ Len(found) = 0
             THEN [@ EXCEPT !.state = "resolved",
                            !.lines = Append(@, "No conferences starting in 7 days")]
             ELSE Finished([@ EXCEPT !.state = "loop", !.todo = found])]
    /\ UNCHANGED <<authVars, jobVars, returned, pageVars>>

\* a call that would go on only when the promises of its sendEmail calls are
\* settled
Ready_DispatchesSettled(p) ==
    /\ procs[p].state = "loop"
    /\ \A k \in 1..Len(procs[p].sent) : procs[p].sent[k].state # "pending"

\* the call waits for its queries only: sendEmail(...).catch(...) is not awaited
Ready(p) == procs[p].state = "loop"

\* the queries of the next conference resolve (its submissions, their reviews)
NextConference(p) ==
    /\ Ready(p)
    /\ procs[p].queue = <<>>
    /\ procs[p].todo # <<>>
    /\ procs' = [procs EXCEPT ![p] =
          Finished([@ EXCEPT !.todo = Tail(@),
                             !.queue = ConferenceEmails(procs[p].job, Head(procs[p].todo))])]
    /\ UNCHANGED <<authVars, jobVars, returned, pageVars>>

\* await User.findById(...) resolves: sendEmail is called for the recipient,
\* and the call goes on
NextRecipient(p) ==
    /\ Ready(p)
    /\ procs[p].queue # <<>>
    /\ procs' = [procs EXCEPT ![p] =
          Finished([@ EXCEPT !.queue = Tail(@),
                             !.sent = Append(@, [email |-> Head(procs[p].queue),
                                                 state |-> "pending"])])]
    /\ UNCHANGED <<authVars, jobVars, returned, pageVars>>

\* a job whose catch block would throw again
Caught_Rethrows(run) ==
    [run EXCEPT !.state = "rejected", !.threw = TRUE,
                !.lines = Append(@, ErrorLine(run.job))]

\* } catch (error) { console.error(...) }: the call logs and returns
Caught(run) ==
    [run EXCEPT !.state = "resolved", !.threw = TRUE,
                !.lines = Append(@, ErrorLine(run.job))]

\* the query or lookup the call is waiting for fails
QueryFails(p) ==
    /\ Executing(p)
    /\ procs' = [procs EXCEPT ![p] = Caught(@)]
    /\ UNCHANGED <<authVars, jobVars, returned, pageVars>>

\* the promise of the k-th sendEmail call of p settles; a rejection is logged
\* by .catch(err => console.error('Email error:', err))
Settle(p, k) ==
    /\ procs[p].sent[k].state = "pending"
    /\ \E outcome \in {"delivered", "rejected"} :
          procs' = [procs EXCEPT ![p].sent[k].state = outcome,
                                 ![p].lines = IF outcome = "rejected"
                                              THEN Append(@, "Email error:") ELSE @]
    /\ UNCHANGED <<authVars, jobVars, returned, pageVars>>

\* One conference that starts seven days after the jobs are called and has no
\* end date, with
\* one submission assigned to both reviewers, the second of whom may have
\* submitted a review; the organizer has an address.
InitJobsConc ==
    /\ QuietAuth
    /\ users = <<ReviewerUser(1, ReviewerMail(1)), ReviewerUser(2, ReviewerMail(2)),
                 NewUser(Mail(<<"o">>, "a.org"), "organizer", None, NoOrcid, None, None, None)>>
    /\ conferences = <<DigestConference(AddDays(AddDays(0, 1), 7), NoDate, 3)>>
    /\ submissions = <<Submission(1, "under_review", <<1, 2>>)>>
    /\ reviews \in {{}, {Review(1, 2, "submitted")}}
    /\ day = 1
    /\ runs = <<>>
    /\ outbox = <<>>
    /\ rejected = {}
    /\ errors = {}
    /\ digestRuns = <<>>
    /\ returned = NoCall

NextJobsConc ==
    \/ \E job \in Jobs : StartJob(job)
    \/ \E p \in 1..Len(procs) : Find(p)
    \/ \E p \in 1..Len(procs) : NextConference(p)
    \/ \E p \in 1..Len(procs) : NextRecipient(p)
    \/ \E p \in 1..Len(procs) : QueryFails(p)
    \/ \E p \in 1..Len(procs) : \E k \in 1..Len(procs[p].sent) : Settle(p, k)

SpecJobsConc == InitJobsConc /\ [][NextJobsConc]_vars

(***************************************************************************)
(* The jobs as async functions: what the claims speak of                   *)
(***************************************************************************)

Calls == 1..Len(procs)

\* the messages call p has handed to sendEmail, in order
Handed(p) == [k \in 1..Len(procs[p].sent) |-> procs[p].sent[k].email]

\* the messages the data call p reads lead to, in order
Expected(p) ==
    LET found == FoundConferences(procs[p].job, procs[p].at)
    IN Flatten([k \in 1..Len(found) |-> ConferenceEmails(procs[p].job, found[k])])

\* call p returned from the end of its try block
RanThrough(p) == procs[p].state = "resolved" /\ ~procs[p].threw

\* C22: while a call of a job is executing, another call of the same job can
\* start; and of two calls of a job, the second started while the first was
\* executing, each hands to sendEmail every message its data leads to, so that
\* both dispatch for the same reviewer and submission, or the same conference.
C22_NoMutualExclusion ==
    /\ \A job \in Jobs :
          (Len(procs) < MaxRuns /\ \E p \in Calls : procs[p].job = job /\ Executing(p))
             => ENABLED StartJob(job)
    /\ \A p, q \in Calls :
          (/\ p \in procs[q].during
           /\ procs[p].job = procs[q].job
           /\ RanThrough(p) /\ RanThrough(q))
             => (Handed(p) = Expected(p) /\ Handed(q) = Handed(p))

\* C22 witness: two calls of sendReviewReminders, the second started while the
\* first was executing, are both executing and have both dispatched the
\* reminder of the same reviewer for the same submission.
C22_Witness ==
    \E p, q \in Calls :
        /\ p \in procs[q].during
        /\ procs[p].job = "sendReviewReminders"
        /\ procs[q].job = "sendReviewReminders"
        /\ Executing(p) /\ Executing(q)
        /\ \E k \in 1..Len(procs[p].sent), j \in 1..Len(procs[q].sent) :
              procs[p].sent[k].email = procs[q].sent[j].email

\* C23: a call in its loop can always take its next step, whatever the state
\* of the promises of its sendEmail calls; the messages it has handed to
\* sendEmail are the first of those its data leads to, and all of them once
\* it has completed, whichever promises were fulfilled, rejected or pending.
C23_DispatchNotAwaited ==
    \A p \in Calls :
        /\ procs[p].state = "loop" => ENABLED (NextConference(p) \/ NextRecipient(p))
        /\ Len(Handed(p)) <= Len(Expected(p))
        /\ Handed(p) = SubSeq(Expected(p), 1, Len(Handed(p)))
        /\ RanThrough(p) => Handed(p) = Expected(p)

\* C23 witness: a call has logged that the reminders were sent and returned
\* while the promise of its first sendEmail call is pending and that of its
\* second has been rejected.
C23_Witness ==
    \E p \in Calls :
        /\ RanThrough(p)
        /\ SentLine(procs[p].job) \in {procs[p].lines[k] : k \in 1..Len(procs[p].lines)}
        /\ Len(procs[p].sent) = 2
        /\ procs[p].sent[1].state = "pending"
        /\ procs[p].sent[2].state = "rejected"

\* C30: a call never ends with a rejected promise: one whose query or lookup
\* failed has logged the error and resolved; and a call that completed has
\* handed to sendEmail every message its data leads to, whatever became of the
\* calls before it.
C30_JobsCatchErrors ==
    \A p \in Calls :
        /\ procs[p].state \in {"find", "loop", "resolved"}
        /\ procs[p].threw =>
              /\ procs[p].state = "resolved"
              /\ ErrorLine(procs[p].job) \in {procs[p].lines[k] : k \in 1..Len(procs[p].lines)}
        /\ RanThrough(p) => Handed(p) = Expected(p)

\* C30 witness: a call of sendReviewReminders failed and resolved, and a call
\* of the same job started after that has dispatched its reminders and
\* completed.
C30_Witness ==
    \E p, q \in Calls :
        /\ p < q
        /\ procs[p].job = "sendReviewReminders"
        /\ procs[q].job = "sendReviewReminders"
        /\ procs[p].threw
        /\ procs[p].state = "resolved"
        /\ p \notin procs[q].during
        /\ RanThrough(q)
        /\ Handed(q) # <<>>

(***************************************************************************)
(* ToastProvider and ToastItem: the toast list and its timers              *)
(***************************************************************************)

\* most toasts shown
MaxToasts == 2

\* last reading of Date.now()
LastTick == 1

\* values of Math.random(): Date.now() + Math.random() has room for a few
\* thousand different fractions, of which these are two
Fractions == {0, 1}

\* duration: negative, zero, the default
Durations == {0 - 1, 0, 4000}

\* showToast that would set the timer for a duration of zero as well
autoRemove_NotNegative(duration) == duration >= 0

\* if (duration > 0) { setTimeout(() => { removeToastRef.current(id); }, duration); }
autoRemove(duration) == duration > 0

\* removeToast that would take the older toasts with it
removeToast_AndOlder(list, id) ==
    LET at == {i \in 1..Len(list) : list[i].id = id}
    IN IF at = {} THEN list
       ELSE SubSeq(list, 1 + CHOOSE i \in at : \A j \in at : j <= i, Len(list))

\* setToasts(prev => prev.filter(toast => toast.id !== id))
removeToast(list, id) == SelectSeq(list, LAMBDA toast : toast.id # id)

\* showToast(message, type, duration); the message tells the toasts apart
showToast ==
    /\ Len(shown) < MaxToasts
    /\ \E duration \in Durations, fraction \in Fractions :
          LET id == [ms |-> clock, fraction |-> fraction]
              toast == [id |-> id, message |-> Len(shown) + 1, duration |-> duration]
          IN /\ toasts' = Append(toasts, toast)
             /\ shown' = Append(shown, toast)
             /\ timers' = IF autoRemove(duration)
                          THEN timers \cup {[kind |-> "auto", id |-> id,
                                             message |-> toast.message]}
                          ELSE timers
    /\ UNCHANGED <<authVars, jobVars, returned, procVars, detailVars, clock, dismissed>>

\* a millisecond passes
Tick ==
    /\ clock < LastTick
    /\ clock' = clock + 1
    /\ UNCHANGED <<authVars, jobVars, returned, procVars, detailVars, toasts, timers, shown,
                   dismissed>>

\* ToastItem.handleClose of a toast on screen:
\* setTimeout(() => onRemove(toast.id), 200)
handleClose(k) ==
    /\ timers' = timers \cup {[kind |-> "close", id |-> toasts[k].id,
                               message |-> toasts[k].message]}
    /\ UNCHANGED <<authVars, jobVars, returned, procVars, detailVars, toasts, clock, shown,
                   dismissed>>

\* the callback of timer runs: removeToast(id)
TimerFires(timer) ==
    /\ timer \in timers
    /\ toasts' = removeToast(toasts, timer.id)
    /\ timers' = timers \ {timer}
    /\ dismissed' = dismissed \cup {timer}
    /\ UNCHANGED <<authVars, jobVars, returned, procVars, detailVars, clock, shown>>

\* the auto-remove timer of the toast with this message runs
Expires(message) ==
    \E timer \in timers :
        timer.kind = "auto" /\ timer.message = message /\ TimerFires(timer)

NextToasts ==
    \/ showToast
    \/ Tick
    \/ \E k \in 1..Len(toasts) : handleClose(k)
    \/ \E timer \in timers : TimerFires(timer)

SpecToasts == InitAuth /\ [][NextToasts]_vars

\* the browser runs the callback of every timer that has been set
SpecToastsFair == SpecToasts /\ \A message \in 1..MaxToasts : WF_vars(Expires(message))

(***************************************************************************)
(* Toasts: what the claims speak of                                        *)
(***************************************************************************)

\* the toast with this message has been shown
Shown(message) == message <= Len(shown)

\* the toast with this message is in the list
Listed(message) == \E k \in 1..Len(toasts) : toasts[k].message = message

\* the toasts whose own timer or close button has called removeToast
Dismissed == {timer.message : timer \in dismissed}

\* no two toasts were given the same id
DistinctIds == \A i, j \in 1..Len(shown) : i # j => shown[i].id # shown[j].id

\* C24: a toast shown with a duration above zero is eventually out of the
\* list; a toast shown with a duration of zero or less has no auto-remove
\* timer, and leaves the list only in a step in which a timer other than one
\* of its own expiry calls removeToast with its id.
C24_ToastsExpire ==
    /\ \A message \in 1..MaxToasts :
          (Shown(message) /\ shown[message].duration > 0) ~> ~Listed(message)
    /\ [][\A message \in 1..Len(shown) :
             (shown[message].duration <= 0 /\ Listed(message) /\ ~Listed(message)')
                => \E timer \in timers :
                      /\ timers' = timers \ {timer}
                      /\ timer.id = shown[message].id
                      /\ ~(timer.kind = "auto" /\ timer.message = message)]_vars

\* C24 witness: a toast shown with the default duration is out of the list
\* after its timer ran, and a toast shown before it with duration zero, whose
\* close button was not used, is in the list.
C24_Witness ==
    /\ Len(shown) = 2
    /\ shown[1].duration = 0
    /\ shown[2].duration = 4000
    /\ dismissed = {[kind |-> "auto", id |-> shown[2].id, message |-> 2]}
    /\ timers = {}
    /\ Listed(1)
    /\ ~Listed(2)

\* C25 as stated: after any interleaving of showToast, manual close and timer
\* expiry the list holds exactly the toasts shown whose timer or close button
\* has not yet called removeToast, in the order they were shown.
C25_Original ==
    toasts = SelectSeq(shown, LAMBDA toast : toast.message \notin Dismissed)

\* C25: as long as no two toasts were given the same id, the list holds exactly
\* the toasts shown whose timer or close button has not yet called removeToast,
\* in the order they were shown: the second removal of a toast, and any
\* removal, leaves the other toasts in the list.
C25_RemovalsCommute ==
    DistinctIds => toasts = SelectSeq(shown, LAMBDA toast : toast.message \notin Dismissed)

\* C25 witness: the close button and the auto-remove timer of the first of two
\* toasts with different ids have both called removeToast, and the second
\* toast is in the list.
C25_Witness ==
    /\ Len(shown) = 2
    /\ DistinctIds
    /\ dismissed = {[kind |-> kind, id |-> shown[1].id, message |-> 1] :
                       kind \in {"auto", "close"}}
    /\ toasts = <<shown[2]>>

(***************************************************************************)
(* MySubmissions: the details modal                                        *)
(***************************************************************************)

\* most detail requests
MaxFetches == 3

\* the author's submissions
ListedSubmissions == {1, 2}

\* {showDetailsModal && selectedSubmission && ( ... )}
ModalOpen == showDetailsModal /\ selectedSubmission # NoSubmission

\* a card or its View Details button is clicked (the open modal covers them):
\* setDetailsLoading(true), then api.get(`/author/submissions/${submissionId}`)
fetchSubmissionDetails(submissionId) ==
    /\ Len(fetches) < MaxFetches
    /\ ~ModalOpen
    /\ detailsLoading' = TRUE
    /\ fetches' = Append(fetches, [submissionId |-> submissionId, state |-> "pending"])
    /\ UNCHANGED <<authVars, jobVars, returned, procVars, toastVars, selectedSubmission,
                   showDetailsModal>>

\* the response of request k arrives: setSelectedSubmission(response.data.data),
\* setShowDetailsModal(true), and finally setDetailsLoading(false)
DetailsArrive(k) ==
    /\ fetches[k].state = "pending"
    /\ fetches' = [fetches EXCEPT ![k].state = "arrived"]
    /\ selectedSubmission' = fetches[k].submissionId
    /\ showDetailsModal' = TRUE
    /\ detailsLoading' = FALSE
    /\ UNCHANGED <<authVars, jobVars, returned, procVars, toastVars>>

\* request k fails: the catch block alerts, and finally setDetailsLoading(false)
DetailsFail(k) ==
    /\ fetches[k].state = "pending"
    /\ fetches' = [fetches EXCEPT ![k].state = "failed"]
    /\ detailsLoading' = FALSE
    /\ UNCHANGED <<authVars, jobVars, returned, procVars, toastVars, selectedSubmission,
                   showDetailsModal>>

\* closeModal
closeModal ==
    /\ ModalOpen
    /\ showDetailsModal' = FALSE
    /\ selectedSubmission' = NoSubmission
    /\ UNCHANGED <<authVars, jobVars, returned, procVars, toastVars, fetches, detailsLoading>>

NextDetails ==
    \/ \E submissionId \in ListedSubmissions : fetchSubmissionDetails(submissionId)
    \/ \E k \in 1..Len(fetches) : DetailsArrive(k)
    \/ \E k \in 1..Len(fetches) : DetailsFail(k)
    \/ closeModal

SpecDetails == InitAuth /\ [][NextDetails]_vars

\* C29 as stated: once the responses of all requests have arrived, the open
\* modal shows the submission requested last.
C29_Original ==
    (/\ ModalOpen
     /\ \A k \in 1..Len(fetches) : fetches[k].state = "arrived")
       => selectedSubmission = fetches[Len(fetches)].submissionId

====
